---- MODULE Spec2Model ----
(***************************************************************************)
(* Model of the adscanner backend: the ingress rate limiter                *)
(* (middleware/rateLimit.ts), the SQLite-backed cache (services/cache.ts), *)
(* the two reputation adapters with their retry wrapper                    *)
(* (services/virusTotal.ts, services/googleSafeBrowsing.ts,                *)
(* utils/retry.ts) and the POST /api/check route (routes/check.ts).        *)
(*                                                                         *)
(* Time is in milliseconds, as Date.now() gives it.  Scores are JavaScript *)
(* numbers; the model keeps them as exact fractions [num, den], so that    *)
(* a mean of two scores or a detection ratio is represented without        *)
(* rounding.                                                               *)
(***************************************************************************)
EXTENDS Integers, Sequences, FiniteSets, TLC

(***************************************************************************)
(* Bounds of the model (not program constants).                            *)
(***************************************************************************)
\* how many times the clock may be advanced in one behaviour
MaxTicks == 2
\* how many requests may arrive in one behaviour of the request flow
MaxArrivals == 2
\* the ingress counter of one client is not driven beyond LIMIT + MaxOver
MaxOver == 2

(***************************************************************************)
(* Numbers: exact fractions standing for JavaScript numbers.               *)
(***************************************************************************)
Rat(n, d) == [num |-> n, den |-> d]

RatAdd(a, b) == Rat(a.num * b.den + b.num * a.den, a.den * b.den)

RatDiv(a, k) == Rat(a.num, a.den * k)

\* a < k for an integer k (denominators are positive)
RatLess(a, k) == a.num < k * a.den

RatEq(a, b) == a.num * b.den = b.num * a.den

\* scores.reduce((a, b) => a + b, 0)
RECURSIVE SumScores(_)
SumScores(scores) ==
  IF scores = << >> THEN Rat(0, 1)
  ELSE RatAdd(SumScores(SubSeq(scores, 1, Len(scores) - 1)), scores[Len(scores)])

\* Math.ceil(a / b) for a >= 0, b > 0
CeilDiv(a, b) == (a + b - 1) \div b

Max(a, b) == IF a > b THEN a ELSE b

(***************************************************************************)
(* Values shared by the components.                                        *)
(***************************************************************************)
\* JavaScript null / SQL NULL
Null == [null |-> TRUE]

\* new Date(ms).toISOString(): the instant as text, exact to the millisecond
toISOString(ms) == [iso |-> ms]

\* Map.set / Map.delete on a Map modelled as a function on its present keys
MapSet(m, k, v) == [x \in (DOMAIN m) \cup {k} |-> IF x = k THEN v ELSE m[x]]

MapDelete(m, k) == [x \in (DOMAIN m) \ {k} |-> m[x]]

(***************************************************************************)
(* Strings that the code inspects character by character are sequences of  *)
(* one-character strings.                                                  *)
(***************************************************************************)
Alphabet == <<"a", "b", "c", "d", "e", "f", "g", "h", "i", "j", "k", "l", "m",
              "n", "o", "p", "q", "r", "s", "t", "u", "v", "w", "x", "y", "z">>

\* char.charCodeAt(0) for the characters of a hostname in the model
charCodeAt(ch) ==
  IF ch = "." THEN 46
  ELSE IF ch = "-" THEN 45
  ELSE 96 + (CHOOSE i \in 1..Len(Alphabet) : Alphabet[i] = ch)

\* domain.split('').reduce((acc, char) => acc + char.charCodeAt(0), 0)
RECURSIVE domainHash(_)
domainHash(domain) ==
  IF domain = << >> THEN 0
  ELSE domainHash(SubSeq(domain, 1, Len(domain) - 1)) + charCodeAt(domain[Len(domain)])

\* String.prototype.includes
includes(str, sub) ==
  \E i \in 1..(Len(str) - Len(sub) + 1) : SubSeq(str, i, i + Len(sub) - 1) = sub

highRiskKeywords ==
  << <<"a", "d", "s">>,
     <<"d", "o", "u", "b", "l", "e", "c", "l", "i", "c", "k">>,
     <<"a", "d", "s", "e", "r", "v", "e", "r">>,
     <<"a", "d", "n", "e", "t", "w", "o", "r", "k">>,
     <<"c", "l", "i", "c", "k">>,
     <<"t", "r", "a", "c", "k", "i", "n", "g">>,
     <<"d", "a", "n", "g", "e", "r", "o", "u", "s">>,
     <<"r", "i", "s", "k", "y">> >>

\* highRiskKeywords.some(keyword => domain.includes(keyword))
isHighRisk(domain) ==
  \E i \in 1..Len(highRiskKeywords) : includes(domain, highRiskKeywords[i])

\* domain.includes('example') || domain.includes('test') || domain.includes('medium')
isMediumRisk(domain) ==
  \/ includes(domain, <<"e", "x", "a", "m", "p", "l", "e">>)
  \/ includes(domain, <<"t", "e", "s", "t">>)
  \/ includes(domain, <<"m", "e", "d", "i", "u", "m">>)

(***************************************************************************)
(* Ingress rate limiter (middleware/rateLimit.ts).                         *)
(***************************************************************************)
LIMIT == 60

WINDOW == 60 * 1000

SWEEP_INTERVAL == 5 * 60 * 1000

\* a getClientIp that prefers x-real-ip
getClientIpRealIpFirst(headers) ==
  IF headers.xRealIp # "" THEN headers.xRealIp
  ELSE IF headers.xForwardedFor # "" THEN headers.xForwardedFor
  ELSE "unknown"

\* c.req.header(name) is undefined for an absent header: "" stands for it
\* (an empty header value is falsy as well)
getClientIp(headers) ==
  IF headers.xForwardedFor # "" THEN headers.xForwardedFor
  ELSE IF headers.xRealIp # "" THEN headers.xRealIp
  ELSE "unknown"

\* a limiter that already replaces the window at its reset time
rateLimitEntryResetAtExpiry(rlStore, clientIp, t) ==
  LET entry == IF clientIp \notin DOMAIN rlStore \/ t >= rlStore[clientIp].resetTime
               THEN [count |-> 0, resetTime |-> t + WINDOW]
               ELSE rlStore[clientIp]
  IN  [entry EXCEPT !.count = @ + 1]

\* the entry of clientIp after lines 20-29: reset if absent or expired, count++
rateLimitEntry(rlStore, clientIp, t) ==
  LET entry == IF clientIp \notin DOMAIN rlStore \/ t > rlStore[clientIp].resetTime
               THEN [count |-> 0, resetTime |-> t + WINDOW]
               ELSE rlStore[clientIp]
  IN  [entry EXCEPT !.count = @ + 1]

\* Math.max(0, LIMIT - entry.count)
rateLimitRemaining(entry) == Max(0, LIMIT - entry.count)

\* the time left in whole seconds, rounded down
rateLimitResetInFloor(entry, t) == (entry.resetTime - t) \div 1000

\* Math.ceil((entry.resetTime - now) / 1000)
rateLimitResetIn(entry, t) == CeilDiv(entry.resetTime - t, 1000)

\* a limiter that already rejects the request that reaches LIMIT
rateLimitExceededAtLimit(entry) == entry.count >= LIMIT

\* entry.count > LIMIT: the request is answered 429 and next() is not called
rateLimitExceeded(entry) == entry.count > LIMIT

\* the X-RateLimit-* headers set on every response, and Retry-After on a 429
rateLimitHeaders(entry, t) ==
  [limit      |-> LIMIT,
   remaining  |-> rateLimitRemaining(entry),
   reset      |-> entry.resetTime,
   retryAfter |-> IF rateLimitExceeded(entry) THEN rateLimitResetIn(entry, t) ELSE -1]

\* a sweep that drops a window as soon as its reset time is reached
sweepStoreAtReset(rlStore, t) ==
  [k \in {x \in DOMAIN rlStore : ~(t >= rlStore[x].resetTime)} |-> rlStore[k]]

\* the setInterval callback: drop the windows that ended more than WINDOW ago
sweepStore(rlStore, t) ==
  [k \in {x \in DOMAIN rlStore : ~(t > rlStore[x].resetTime + WINDOW)} |-> rlStore[k]]

(***************************************************************************)
(* URLs.  A request body's url is a record of what `new URL` makes of it:  *)
(* present (a non-empty string), its length, whether it parses, and the    *)
(* protocol, hostname and path of the parsed URL.                          *)
(***************************************************************************)
MAX_URL_LENGTH == 2048

\* an isValidUrl without the length check
isValidUrlAnyLength(url) ==
  url.present /\ url.parses /\ url.protocol \in {"http:", "https:"}

\* routes/check.ts isValidUrl
isValidUrl(url) ==
  IF ~url.present \/ url.length > MAX_URL_LENGTH THEN FALSE
  ELSE IF ~url.parses THEN FALSE
  ELSE IF url.protocol \notin {"http:", "https:"} THEN FALSE
  ELSE TRUE

\* an extractDomain that tells the schemes apart
extractDomainByScheme(url) ==
  IF url.protocol = "https:" THEN <<"t", "e", "s", "t", ".", "i", "o">> ELSE url.hostname

\* utils/url.ts extractDomain (called only on urls that passed isValidUrl)
extractDomain(url) == url.hostname

\* a getRiskLevel whose bands end with <= : 20, 40, 60, 80 in the lower band
getRiskLevelUpperInclusive(score) ==
  IF score.den = 0 THEN "dangerous"
  ELSE IF score.num <= 20 * score.den THEN "safe"
  ELSE IF score.num <= 40 * score.den THEN "low"
  ELSE IF score.num <= 60 * score.den THEN "medium"
  ELSE IF score.num <= 80 * score.den THEN "high"
  ELSE "dangerous"

\* routes/check.ts getRiskLevel; a NaN score fails every comparison
getRiskLevel(score) ==
  IF score.den = 0 THEN "dangerous"
  ELSE IF RatLess(score, 20) THEN "safe"
  ELSE IF RatLess(score, 40) THEN "low"
  ELSE IF RatLess(score, 60) THEN "medium"
  ELSE IF RatLess(score, 80) THEN "high"
  ELSE "dangerous"

(***************************************************************************)
(* Source adapters (services/virusTotal.ts, services/googleSafeBrowsing.ts)*)
(* and the retry wrapper (utils/retry.ts).                                 *)
(***************************************************************************)
Sources == {"virustotal", "google-safe-browsing"}

\* what one fetch() gives: an HTTP status with a body, or no response at all
ABORTED == -1

FETCH_FAILED == 0

\* the outcome of the operation closure handed to retryWithBackoff
Throw(e) == [threw |-> e, data |-> Null]

Return(d) == [threw |-> "", data |-> d]

calculateRiskScore(detectionCount, enginesCount) ==
  IF enginesCount = 0 THEN Rat(0, 1) ELSE Rat(detectionCount * 100, enginesCount)

invertTrustToRiskScore(trustScore) == Rat(100 - trustScore, 1)

\* services/virusTotal.ts getMockResult
getMockResultVirusTotal(domain, t) ==
  LET h == domainHash(domain)
      mockDetectionCount ==
        IF isHighRisk(domain) THEN 30 + (h % 40)
        ELSE IF isMediumRisk(domain) THEN 15 + (h % 20)
        ELSE h % 11
  IN  [domain         |-> domain,
       detectionCount |-> mockDetectionCount,
       enginesCount   |-> 88,
       riskScore      |-> calculateRiskScore(mockDetectionCount, 88)]

\* services/googleSafeBrowsing.ts getMockResult
getMockResultSafeBrowsing(domain, t) ==
  LET h == domainHash(domain)
      trustScore ==
        IF isHighRisk(domain) THEN 10 + (h % 20)
        ELSE IF isMediumRisk(domain) THEN 40 + (h % 20)
        ELSE 70 + (h % 25)
  IN  [domain      |-> domain,
       threatTypes |-> IF isHighRisk(domain)
                       THEN <<"UNWANTED_SOFTWARE", "SUSPICIOUS">> ELSE << >>,
       riskScore   |-> invertTrustToRiskScore(trustScore),
       isSafe      |-> ~isHighRisk(domain)]

getMockResult(source, domain, t) ==
  IF source = "virustotal" THEN getMockResultVirusTotal(domain, t)
  ELSE getMockResultSafeBrowsing(domain, t)

\* the closure of services/virusTotal.ts checkUrl: one fetch with its timeout
virusTotalOperation(resp) ==
  IF resp.status = ABORTED THEN Throw("TimeoutError")
  ELSE IF resp.status = FETCH_FAILED THEN Throw("Error")
  ELSE IF resp.status = 429 THEN Throw("RateLimitError")
  ELSE IF resp.status \in {502, 503, 504} THEN Throw("NetworkError")
  ELSE IF resp.status = 404 THEN Return([resp.body EXCEPT !.error = "NotFoundError"])
  ELSE IF resp.status \notin 200..299 THEN Throw("Error")
  ELSE IF ~resp.json THEN Throw("Error")
  ELSE Return(resp.body)

\* the closure of services/googleSafeBrowsing.ts checkUrl
safeBrowsingOperation(resp) ==
  IF resp.status = ABORTED THEN Throw("TimeoutError")
  ELSE IF resp.status = FETCH_FAILED THEN Throw("Error")
  ELSE IF resp.status = 429 THEN Throw("RateLimitError")
  ELSE IF resp.status >= 500 THEN Throw("NetworkError")
  ELSE IF resp.status \notin 200..299 THEN Throw("Error")
  ELSE IF ~resp.json THEN Throw("Error")
  ELSE Return(resp.body)

operation(source, resp) ==
  IF source = "virustotal" THEN virusTotalOperation(resp) ELSE safeBrowsingOperation(resp)

\* { retries: 2 } in both adapters; initialDelayMs and factor are the defaults
retries == 2

initialDelayMs == 1000

factor == 2

\* setTimeout(() => controller.abort(), ...)
fetchTimeout(source) == IF source = "virustotal" THEN 10000 ELSE 5000

\* retryWithBackoff's default shouldRetry: () => true
shouldRetryAlways(error) == TRUE

\* a shouldRetry that leaves timeouts out
shouldRetryNetworkOnly(error) == error = "NetworkError"

\* shouldRetry of both adapters
shouldRetry(error) == error \in {"NetworkError", "TimeoutError"}

RECURSIVE pow(_, _)
pow(b, e) == IF e = 0 THEN 1 ELSE b * pow(b, e - 1)

\* a backoff that grows linearly: initialDelayMs * factor * attempt
delayMsLinear(attempt) == initialDelayMs * factor * attempt

\* initialDelayMs * Math.pow(factor, attempt)
delayMs(attempt) == initialDelayMs * pow(factor, attempt)

\* a retryWithBackoff that has no last attempt
retryGivesUpOnErrorOnly(attempt, error) == ~shouldRetry(error)

\* retryWithBackoff's catch: rethrow, or sleep and try again
retryGivesUp(attempt, error) == attempt = retries \/ ~shouldRetry(error)

\* services/virusTotal.ts checkUrl after retryWithBackoff returned data:
\* the result, or the error thrown (caught by checkUrl's own catch)
virusTotalFromData(domain, data, t) ==
  IF data.error = "NotFoundError" THEN Return(getMockResultVirusTotal(domain, t))
  ELSE IF data.error = "AuthenticationRequiredError"
    THEN Return(getMockResultVirusTotal(domain, t))
  ELSE IF data.error # "" THEN Throw("Error")
  ELSE IF ~data.attributes THEN Return(getMockResultVirusTotal(domain, t))
  ELSE LET detectionCount == data.malicious + data.suspicious
           enginesCount == data.malicious + data.suspicious
                           + data.undetected + data.harmless
       IN  Return([domain         |-> domain,
                   detectionCount |-> detectionCount,
                   enginesCount   |-> enginesCount,
                   riskScore      |-> calculateRiskScore(detectionCount, enginesCount)])

\* services/googleSafeBrowsing.ts checkUrl after retryWithBackoff returned data
safeBrowsingFromData(domain, data, t) ==
  LET matches == data.matches
      has(tt) == \E i \in 1..Len(matches) : matches[i] = tt
      trustScore ==
        IF Len(matches) = 0 THEN 90
        ELSE IF has("MALWARE") THEN 10
        ELSE IF has("SOCIAL_ENGINEERING") THEN 20
        ELSE IF has("UNWANTED_SOFTWARE") THEN 30
        ELSE 40
  IN  Return([domain      |-> domain,
              threatTypes |-> matches,
              riskScore   |-> invertTrustToRiskScore(trustScore),
              isSafe      |-> Len(matches) = 0])

fromData(source, domain, data, t) ==
  IF source = "virustotal" THEN virusTotalFromData(domain, data, t)
  ELSE safeBrowsingFromData(domain, data, t)

\* the outer catch of checkUrl: a RateLimitError is rethrown (the promise
\* rejects), every other error is answered with the mock result
checkUrlCatch(source, domain, error, t) ==
  IF error = "RateLimitError" THEN Throw(error)
  ELSE Return(getMockResult(source, domain, t))

\* the error that checkUrl's catch receives ("" if nothing is thrown)
checkUrlCaught(source, domain, out, t) ==
  IF out.threw # "" THEN out.threw ELSE fromData(source, domain, out.data, t).threw

\* how checkUrl ends once retryWithBackoff has ended with outcome `out`
checkUrlEnd(source, domain, out, t) ==
  IF out.threw # "" THEN checkUrlCatch(source, domain, out.threw, t)
  ELSE LET res == fromData(source, domain, out.data, t)
       IN  IF res.threw # "" THEN checkUrlCatch(source, domain, res.threw, t) ELSE res

(***************************************************************************)
(* Cache (services/cache.ts) over the url_checks table (db/index.ts).      *)
(* The table is the sequence of its rows in rowid order.                   *)
(***************************************************************************)
\* a time to live of one hour
TTL_ONE_HOUR == 60 * 60 * 1000

DEFAULT_TTL == 24 * 60 * 60 * 1000

\* JSON.stringify of a number: NaN is written as null
jsonNumber(x) == IF x.den = 0 THEN Null ELSE x

\* JSON.stringify of a result object: text, its fields in declaration order
\* (scanDate and the details passed through to the client are left out of
\* the result objects of the model)
JSONstringify(source, r) ==
  IF source = "virustotal"
  THEN [json |-> <<r.domain, r.detectionCount, r.enginesCount, jsonNumber(r.riskScore)>>]
  ELSE [json |-> <<r.domain, r.threatTypes, jsonNumber(r.riskScore), r.isSafe>>]

\* JSON.parse of such a text
JSONparse(source, text) ==
  IF source = "virustotal"
  THEN [domain         |-> text.json[1],
        detectionCount |-> text.json[2],
        enginesCount   |-> text.json[3],
        riskScore      |-> text.json[4]]
  ELSE [domain      |-> text.json[1],
        threatTypes |-> text.json[2],
        riskScore   |-> text.json[3],
        isSafe      |-> text.json[4]]

\* SELECT * FROM url_checks WHERE domain = ?
dbSelect(table, domain) == SelectSeq(table, LAMBDA row : row.domain = domain)

\* a DELETE that removes nothing
dbDeleteNone(table, domain) == table

\* DELETE FROM url_checks WHERE domain = ?
dbDelete(table, domain) == SelectSeq(table, LAMBDA row : row.domain # domain)

\* domain TEXT NOT NULL UNIQUE: an INSERT of a domain already present throws
dbInsertThrows(table, row) == dbSelect(table, row.domain) # << >>

dbInsert(table, row) == Append(table, row)

\* isExpired with the comparison turned round
isExpiredInverted(cached, t) == t < cached.expiresAt

\* isExpired that already expires an entry at its expiresAt
isExpiredAtExpiry(cached, t) == t >= cached.expiresAt

\* services/cache.ts isExpired
isExpired(cached, t) == t > cached.expiresAt

\* the try block of services/cache.ts getCachedResult
readCache(table, url, t) ==
  LET results == dbSelect(table, extractDomain(url))
  IN  IF results = << >> THEN Null
      ELSE LET row == results[1]
               cached == [domain                 |-> row.domain,
                          virusTotalData         |-> row.virustotal_data,
                          googleSafeBrowsingData |-> row.googlesafebrowsing_data,
                          combinedRiskScore      |-> row.combined_risk_score,
                          createdAt              |-> row.created_at,
                          expiresAt              |-> row.expires_at]
           IN  IF isExpired(cached, t) THEN Null
               ELSE [domain |-> cached.domain,
                     virusTotalResult |->
                       IF cached.virusTotalData # Null
                       THEN JSONparse("virustotal", cached.virusTotalData)
                       ELSE Null,
                     googleSafeBrowsingResult |->
                       IF cached.googleSafeBrowsingData # Null
                       THEN JSONparse("google-safe-browsing",
                                      cached.googleSafeBrowsingData)
                       ELSE Null,
                     combinedRiskScore |-> cached.combinedRiskScore,
                     cachedAt  |-> toISOString(cached.createdAt),
                     expiresAt |-> toISOString(cached.expiresAt)]

\* a getCachedResult that deletes the rows of the domain that have expired
getCachedResultEvicts(table, url, t, fault) ==
  IF fault = "getDb" THEN table
  ELSE SelectSeq(table, LAMBDA row : row.domain # url.hostname \/ ~(t > row.expires_at))

\* the table after services/cache.ts getCachedResult: its only statement
\* is the SELECT, and it does not call saveDb
getCachedResultTable(table, url, t, fault) == table

\* a getCachedResult without its catch: the read error reaches the caller
getCachedResultThrows(table, url, t, fault) ==
  IF fault = "getDb" THEN Throw("Error") ELSE readCache(table, url, t)

\* services/cache.ts getCachedResult.  fault = "getDb": getDb() or db.exec
\* throws, which the catch turns into null.
getCachedResult(table, url, t, fault) ==
  IF fault = "getDb" THEN Null ELSE readCache(table, url, t)

\* a row that keeps the scores but not the result objects
cacheRowWithoutData(url, virusTotalResult, googleSafeBrowsingResult, combinedRiskScore, t) ==
  [domain                   |-> extractDomain(url),
   virustotal_score         |-> IF virusTotalResult # Null
                                THEN virusTotalResult.riskScore ELSE Null,
   virustotal_data          |-> Null,
   googlesafebrowsing_score |-> IF googleSafeBrowsingResult # Null
                                THEN googleSafeBrowsingResult.riskScore ELSE Null,
   googlesafebrowsing_data  |-> Null,
   combined_risk_score      |-> combinedRiskScore,
   created_at               |-> t,
   expires_at               |-> t + DEFAULT_TTL]

\* the row that setCachedResult inserts
cacheRow(url, virusTotalResult, googleSafeBrowsingResult, combinedRiskScore, t) ==
  [domain                   |-> extractDomain(url),
   virustotal_score         |-> IF virusTotalResult # Null
                                THEN virusTotalResult.riskScore ELSE Null,
   virustotal_data          |-> IF virusTotalResult # Null
                                THEN JSONstringify("virustotal", virusTotalResult)
                                ELSE Null,
   googlesafebrowsing_score |-> IF googleSafeBrowsingResult # Null
                                THEN googleSafeBrowsingResult.riskScore ELSE Null,
   googlesafebrowsing_data  |-> IF googleSafeBrowsingResult # Null
                                THEN JSONstringify("google-safe-browsing",
                                                   googleSafeBrowsingResult)
                                ELSE Null,
   combined_risk_score      |-> combinedRiskScore,
   created_at               |-> t,
   expires_at               |-> t + DEFAULT_TTL]

\* a write that keeps the row a domain already has (INSERT OR IGNORE)
writeCacheIfAbsent(table, url, virusTotalResult, googleSafeBrowsingResult, combinedRiskScore, t, fault) ==
  IF dbSelect(table, extractDomain(url)) # << >>
  THEN [table |-> table, saved |-> TRUE, failed |-> FALSE]
  ELSE [table |-> dbInsert(table, cacheRow(url, virusTotalResult, googleSafeBrowsingResult,
                                           combinedRiskScore, t)),
        saved |-> TRUE, failed |-> FALSE]

\* the try block of services/cache.ts setCachedResult: the table
\* afterwards, whether saveDb() wrote it to the file, and whether a
\* statement threw.  fault names the statement that throws ("getDb",
\* "insert", "save") or is "none".
writeCache(table, url, virusTotalResult, googleSafeBrowsingResult, combinedRiskScore, t, fault) ==
  IF fault = "getDb" THEN [table |-> table, saved |-> FALSE, failed |-> TRUE]
  ELSE LET row == cacheRow(url, virusTotalResult, googleSafeBrowsingResult,
                           combinedRiskScore, t)
           deleted == dbDelete(table, row.domain)
       IN  IF fault = "insert" \/ dbInsertThrows(deleted, row)
           THEN [table |-> deleted, saved |-> FALSE, failed |-> TRUE]
           ELSE [table |-> dbInsert(deleted, row), saved |-> fault # "save",
                 failed |-> fault = "save"]

\* a setCachedResult without its catch: the write error reaches the caller
setCachedResultThrows(table, url, virusTotalResult, googleSafeBrowsingResult, combinedRiskScore, t, fault) ==
  LET wr == writeCache(table, url, virusTotalResult, googleSafeBrowsingResult,
                       combinedRiskScore, t, fault)
  IN  [table |-> wr.table, saved |-> wr.saved,
       threw |-> IF wr.failed THEN "Error" ELSE ""]

\* services/cache.ts setCachedResult: the catch swallows every error, so
\* nothing is ever thrown to the caller
setCachedResult(table, url, virusTotalResult, googleSafeBrowsingResult, combinedRiskScore, t, fault) ==
  LET wr == writeCache(table, url, virusTotalResult, googleSafeBrowsingResult,
                       combinedRiskScore, t, fault)
  IN  [table |-> wr.table, saved |-> wr.saved, threw |-> ""]

\* db/index.ts saveDb: the file afterwards
saveDb(table, file, saved) == IF saved THEN table ELSE file

\* a getDb that never reads the file and starts from an empty database
loadDbEmpty(file) == << >>

\* db/index.ts getDb on a fresh process: the table read from the file (the
\* migration keeps a table of the current schema as it is)
loadDb(file) == file

(***************************************************************************)
(* POST /api/check (routes/check.ts) and utils/sources.ts.                 *)
(***************************************************************************)
\* utils/sources.ts buildVirusTotalSource / buildGoogleSafeBrowsingSource
buildVirusTotalSource(result) ==
  IF result # Null
  THEN [source |-> "virustotal", score |-> result.riskScore, error |-> ""]
  ELSE [source |-> "virustotal", score |-> Rat(0, 1), error |-> "Service unavailable"]

buildGoogleSafeBrowsingSource(result) ==
  IF result # Null
  THEN [source |-> "google-safe-browsing", score |-> result.riskScore, error |-> ""]
  ELSE [source |-> "google-safe-browsing", score |-> Rat(0, 1),
        error |-> "Service unavailable"]

\* the scores array: one push per non-null result
scoresOf(virusTotalResult, safeBrowsingResult) ==
  (IF virusTotalResult # Null THEN <<virusTotalResult.riskScore>> ELSE << >>)
  \o (IF safeBrowsingResult # Null THEN <<safeBrowsingResult.riskScore>> ELSE << >>)

\* the sum divided by the number of configured sources
combineScoresOverAll(scores) == RatDiv(SumScores(scores), Cardinality(Sources))

\* scores.reduce((a, b) => a + b, 0) / scores.length  (0 / 0 is NaN)
combineScores(scores) == RatDiv(SumScores(scores), Len(scores))

\* the response of a route that has not answered yet
NoResponse ==
  [status |-> 0, error |-> "", type |-> "", retryAfter |-> -1, url |-> Null,
   limit |-> -1, riskScore |-> Rat(0, 0), riskLevel |-> "", sources |-> << >>,
   cached |-> FALSE, checkedAt |-> Null]

errorResponse(status, error, type) ==
  [NoResponse EXCEPT !.status = status, !.error = error, !.type = type]

\* the CheckResponse of both the cache-hit and the cache-miss path
checkResponse(url, virusTotalResult, safeBrowsingResult, cached, checkedAt) ==
  LET riskScore == combineScores(scoresOf(virusTotalResult, safeBrowsingResult))
  IN  [NoResponse EXCEPT
         !.status = 200,
         !.url = url,
         !.riskScore = riskScore,
         !.riskLevel = getRiskLevel(riskScore),
         !.sources = <<buildVirusTotalSource(virusTotalResult),
                       buildGoogleSafeBrowsingSource(safeBrowsingResult)>>,
         !.cached = cached,
         !.checkedAt = checkedAt]

(***************************************************************************)
(* State.                                                                  *)
(***************************************************************************)
VARIABLES
  now,       \* Date.now(), in ms
  ticks,     \* how many times the clock was advanced
  arrivals,  \* how many requests have arrived (counted up to MaxArrivals)
  config,    \* getConfig(): which API keys are set
  store,     \* middleware/rateLimit.ts store: clientIp -> {count, resetTime}
  db,        \* db/index.ts db: the url_checks table in memory
  disk,      \* data/cache.db: the table as saveDb() last wrote it
  req,       \* the requests in flight, by request slot
  nextSweep, \* when the limiter's setInterval callback is next due
  got,       \* the last direct getCachedResult call: when, what it returned, and
             \* the write of the cache that preceded it
  lastPut,   \* per domain: the last write of the cache and the response served with it
  api,       \* the extension's fetchWithRetry call: its loop variables, the
             \* attempts it has made and how it ended
  conn       \* db/index.ts while the database is opened: the module's db and
             \* initialized, the Database objects, the file, and the getDb callers

vars == <<now, ticks, arrivals, config, store, nextSweep, db, disk, req, got, lastPut, api, conn>>

(***************************************************************************)
(* Inputs.                                                                 *)
(***************************************************************************)
Requests == {"r1", "r2"}

AdsIo == <<"a", "d", "s", ".", "i", "o">>

TestIo == <<"t", "e", "s", "t", ".", "i", "o">>

OkIo == <<"o", "k", ".", "i", "o">>

Domains == {AdsIo, TestIo, OkIo}

Url(protocol, hostname, path) ==
  [present |-> TRUE, length |-> 9 + Len(hostname) + Len(path), parses |-> TRUE,
   protocol |-> protocol, hostname |-> hostname, port |-> "", path |-> path]

\* body.url absent (or the empty string)
MissingUrl == [Url("", << >>, << >>) EXCEPT !.present = FALSE, !.parses = FALSE, !.length = 0]

\* a well-formed http url longer than MAX_URL_LENGTH
LongUrl == [Url("http:", OkIo, <<"/">>) EXCEPT !.length = MAX_URL_LENGTH + 1]

\* a string that `new URL` rejects
GarbageUrl == [Url("", << >>, << >>) EXCEPT !.parses = FALSE, !.length = 7]

FtpUrl == Url("ftp:", OkIo, <<"/">>)

ValidUrls ==
  {Url("http:", AdsIo, <<"/">>), Url("https:", AdsIo, <<"/", "x">>),
   Url("http:", TestIo, <<"/">>), Url("http:", OkIo, <<"/">>)}

InvalidUrls == {MissingUrl, LongUrl, GarbageUrl, FtpUrl}

Headers(xff, xri) == [xForwardedFor |-> xff, xRealIp |-> xri]

AllHeaders ==
  {Headers("10.0.0.1", ""), Headers("10.0.0.1", "10.0.0.2"),
   Headers("", "10.0.0.2"), Headers("", "")}

\* VirusTotal API answers
VtBody(error, attributes, malicious, suspicious, undetected, harmless) ==
  [error |-> error, attributes |-> attributes, malicious |-> malicious,
   suspicious |-> suspicious, undetected |-> undetected, harmless |-> harmless]

Resp(status, json, body) == [status |-> status, json |-> json, body |-> body]

VtStats(malicious, suspicious, undetected, harmless) ==
  Resp(200, TRUE, VtBody("", TRUE, malicious, suspicious, undetected, harmless))

VtEmpty == VtBody("", FALSE, 0, 0, 0, 0)

VtResponses ==
  {VtStats(6, 1, 3, 60), VtStats(10, 4, 6, 50), VtStats(0, 0, 0, 0),
   Resp(200, TRUE, VtEmpty), Resp(200, FALSE, VtEmpty),
   Resp(200, TRUE, VtBody("AuthenticationRequiredError", FALSE, 0, 0, 0, 0)),
   Resp(200, TRUE, VtBody("QuotaExceededError", FALSE, 0, 0, 0, 0)),
   Resp(401, TRUE, VtEmpty), Resp(404, TRUE, VtEmpty), Resp(429, TRUE, VtEmpty),
   Resp(500, TRUE, VtEmpty), Resp(503, TRUE, VtEmpty),
   Resp(FETCH_FAILED, FALSE, VtEmpty), Resp(ABORTED, FALSE, VtEmpty)}

\* Google Safe Browsing API answers
GsbBody(matches) == [matches |-> matches]

GsbResponses ==
  {Resp(200, TRUE, GsbBody(<< >>)), Resp(200, TRUE, GsbBody(<<"UNWANTED_SOFTWARE">>)),
   Resp(200, TRUE, GsbBody(<<"SOCIAL_ENGINEERING", "MALWARE">>)),
   Resp(200, FALSE, GsbBody(<< >>)), Resp(400, TRUE, GsbBody(<< >>)),
   Resp(429, TRUE, GsbBody(<< >>)), Resp(500, TRUE, GsbBody(<< >>)),
   Resp(503, TRUE, GsbBody(<< >>)),
   Resp(FETCH_FAILED, FALSE, GsbBody(<< >>)), Resp(ABORTED, FALSE, GsbBody(<< >>))}

Responses(source) == IF source = "virustotal" THEN VtResponses ELSE GsbResponses

(***************************************************************************)
(* Initial state: a freshly started server with an empty cache file.       *)
(***************************************************************************)
\* no fetch has ended yet
NO_STATUS == -2

\* one checkUrl call: where its retryWithBackoff stands, how the last fetch
\* ended, and what checkUrl's catch received
IdleCall ==
  [st |-> "idle", attempt |-> 0, timer |-> -1, invocations |-> 0,
   sleeps |-> << >>, last |-> NO_STATUS, value |-> Null, error |-> ""]

NoRateLimitHeaders == [limit |-> -1, remaining |-> -1, reset |-> -1, retryAfter |-> -1]

IdleReq ==
  [pc |-> "idle", at |-> -1, headers |-> Headers("", ""), url |-> MissingUrl,
   rl |-> NoRateLimitHeaders, src |-> [s \in Sources |-> IdleCall],
   resp |-> NoResponse]

\* no setCachedResult call for the domain has completed without error
NoCompletePut ==
  [live |-> FALSE, at |-> -1, virusTotalResult |-> Null,
   googleSafeBrowsingResult |-> Null, combinedRiskScore |-> Rat(0, 0)]

\* per domain: the entry the table in memory holds (live, at, the results,
\* the score and the response served with the write), the last write that
\* completed without error (ok), and whether the table was read from the
\* file since the last write (reloaded)
NoPut ==
  [live |-> FALSE, at |-> -1, virusTotalResult |-> Null,
   googleSafeBrowsingResult |-> Null, combinedRiskScore |-> Rat(0, 0),
   fresh |-> NoResponse, ok |-> NoCompletePut, reloaded |-> FALSE]

NoGet == [url |-> MissingUrl, at |-> -1, result |-> Null, put |-> NoPut]

Configs == [virusTotalApiKey : BOOLEAN, googleSafeBrowsingApiKey : BOOLEAN]

(***************************************************************************)
(* The extension's client (extension services/api.ts).  What a fetch       *)
(* attempt ends with is the response's status, or what fetch threw: an     *)
(* AbortError, an Error with a message, or a value that is not an Error.   *)
(***************************************************************************)
MAX_RETRIES == 3

INITIAL_RETRY_DELAY_MS == 1000

NoApiError == [type |-> "", status |-> 0, retryable |-> FALSE]

\* createApiError(message, type, { status })
createApiError(type, status) ==
  [type |-> type, status |-> status,
   retryable |-> type = "network" \/ type = "timeout" \/ type = "server_error"]

FetchResponse(status) == [threw |-> "", message |-> << >>, status |-> status]

FetchThrows(name, message) == [threw |-> name, message |-> message, status |-> 0]

\* the try block of fetchWithRetry's loop: the response returned, the
\* ApiError thrown, and lastError afterwards
apiTry(outcome, lastError) ==
  IF outcome.status \in 200..299
  THEN [returned |-> TRUE, threw |-> NoApiError, lastError |-> lastError]
  ELSE IF outcome.status = 429
  THEN [returned |-> FALSE, threw |-> createApiError("rate_limit", 429), lastError |-> lastError]
  ELSE IF outcome.status >= 400 /\ outcome.status < 500
  THEN [returned |-> FALSE, threw |-> createApiError("client_error", outcome.status),
        lastError |-> lastError]
  ELSE IF outcome.status >= 500
  THEN [returned |-> FALSE, threw |-> NoApiError,
        lastError |-> createApiError("server_error", outcome.status)]
  ELSE [returned |-> FALSE, threw |-> NoApiError, lastError |-> lastError]

\* the catch block for an error that is not an ApiError: lastError afterwards
apiCatch(outcome) ==
  IF outcome.threw = "non-Error" THEN createApiError("unknown", 0)
  ELSE IF outcome.threw = "AbortError" THEN createApiError("timeout", 0)
  ELSE IF includes(outcome.message, <<"f", "e", "t", "c", "h">>)
          \/ includes(outcome.message, <<"n", "e", "t", "w", "o", "r", "k">>)
  THEN createApiError("network", 0)
  ELSE createApiError("unknown", 0)

\* the catch block for an ApiError: whether it is thrown on
apiRethrows(apiError, attempt) == ~apiError.retryable \/ attempt = MAX_RETRIES

\* INITIAL_RETRY_DELAY_MS * Math.pow(2, attempt)
apiDelayMs(attempt) == INITIAL_RETRY_DELAY_MS * pow(2, attempt)

IdleApi ==
  [pc |-> "idle", attempt |-> 0, lastError |-> NoApiError, sleeps |-> << >>,
   outcomes |-> << >>, error |-> NoApiError]

(***************************************************************************)
(* The database module (db/index.ts) while it is opened.  A Database       *)
(* object is a record: whether it has the url_checks table and the rows    *)
(* (named by their writer) in it.  handle 0 is null.                       *)
(***************************************************************************)
NoFile == [exists |-> FALSE, table |-> FALSE, rows |-> {}]

NoConn ==
  [db |-> 0, initialized |-> FALSE, handles |-> << >>, file |-> NoFile,
   pc |-> [c \in Requests |-> "idle"],
   mine |-> [c \in Requests |-> 0],
   handle |-> [c \in Requests |-> 0],
   early |-> [c \in Requests |-> FALSE],
   wrote |-> [c \in Requests |-> "no"],
   seen |-> [c \in Requests |-> {}]]

InitWith(cfgs) ==
  /\ now = 0
  /\ ticks = 0
  /\ arrivals = 0
  /\ config \in cfgs
  /\ store = << >>
  /\ nextSweep = SWEEP_INTERVAL
  /\ db = << >>
  /\ disk = << >>
  /\ req = [r \in Requests |-> IdleReq]
  /\ got = NoGet
  /\ lastPut = [d \in Domains |-> NoPut]
  /\ api = IdleApi
  /\ conn = NoConn

Init == InitWith(Configs)

(***************************************************************************)
(* The clock.                                                              *)
(***************************************************************************)
\* the timers that are armed: fetch timeouts and backoff sleeps
PendingTimers ==
  {req[r].src[s].timer : r \in Requests, s \in Sources} \ {-1}

\* the clock moves on by d ms while nothing else happens (no timer is due
\* on the way)
Tick(d) ==
  /\ ticks < MaxTicks
  /\ \A t \in PendingTimers : now + d <= t
  /\ now' = now + d
  /\ ticks' = ticks + 1
  /\ UNCHANGED <<api, conn, arrivals, config, store, nextSweep, db, disk, req, got, lastPut>>

\* time passes until the next armed timer is due; a timer that is due fires
\* before the clock moves on
TickToTimer ==
  /\ PendingTimers # {}
  /\ \A t \in PendingTimers : t > now
  /\ LET due == {t \in PendingTimers : t > now}
         next == CHOOSE t \in due : \A u \in due : t <= u
     IN  now' = next
  /\ UNCHANGED <<api, conn, ticks, arrivals, config, store, nextSweep, db, disk, req, got, lastPut>>

(***************************************************************************)
(* A request: rateLimitMiddleware, then the POST /api/check handler.       *)
(***************************************************************************)
\* a middleware whose 429 branch does not return: next() is called all the same
afterRateLimitFallsThrough(entry) == "handler"

\* where the middleware leaves the request: answered (return c.json(..., 429))
\* or handed on to the handler (await next())
afterRateLimit(entry) == IF rateLimitExceeded(entry) THEN "done" ELSE "handler"

\* rateLimitMiddleware up to `await next()`; cap bounds the client's counter
Arrive(r, headers, url, cap) ==
  /\ req[r].pc = "idle"
  /\ arrivals' = IF arrivals < MaxArrivals THEN arrivals + 1 ELSE arrivals
  /\ LET clientIp == getClientIp(headers)
         entry == rateLimitEntry(store, clientIp, now)
     IN  /\ entry.count <= cap
         /\ store' = MapSet(MapDelete(store, clientIp), clientIp, entry)
         /\ req' = [req EXCEPT ![r] =
              [IdleReq EXCEPT
                 !.at = now,
                 !.headers = headers,
                 !.url = url,
                 !.rl = rateLimitHeaders(entry, now),
                 !.pc = afterRateLimit(entry),
                 !.resp = IF rateLimitExceeded(entry)
                          THEN [errorResponse(429, "Rate limit exceeded", "") EXCEPT
                                  !.retryAfter = rateLimitResetIn(entry, now),
                                  !.limit = LIMIT]
                          ELSE NoResponse]]
  /\ UNCHANGED <<api, conn, now, ticks, config, nextSweep, db, disk, got, lastPut>>

\* a handler that awaits VirusTotal before it calls Safe Browsing
startCheckUrlInTurn(source, domain, hasKey, t) ==
  IF source # "virustotal" THEN IdleCall
  ELSE IF ~hasKey
  THEN [IdleCall EXCEPT !.st = "fulfilled", !.value = getMockResultVirusTotal(domain, t)]
  ELSE [IdleCall EXCEPT !.st = "fetching", !.invocations = 1,
                        !.timer = t + fetchTimeout(source)]

\* a checkUrl whose first attempt is not counted as an invocation
startCheckUrlUncounted(source, domain, hasKey, t) ==
  IF ~hasKey
  THEN [IdleCall EXCEPT !.st = "fulfilled", !.value = getMockResult(source, domain, t)]
  ELSE [IdleCall EXCEPT !.st = "fetching", !.timer = t + fetchTimeout(source)]

\* checkUrl up to its first await: without an API key the mock result at
\* once, otherwise the first attempt of retryWithBackoff is in flight
startCheckUrl(source, domain, hasKey, t) ==
  IF ~hasKey
  THEN [IdleCall EXCEPT !.st = "fulfilled", !.value = getMockResult(source, domain, t)]
  ELSE [IdleCall EXCEPT !.st = "fetching", !.invocations = 1,
                        !.timer = t + fetchTimeout(source)]

hasApiKey(source) ==
  IF source = "virustotal" THEN config.virusTotalApiKey
  ELSE config.googleSafeBrowsingApiKey

\* the handler from the validation to the cache lookup: a 400, a cache hit,
\* or a miss that starts both checkUrl calls
Handle(r, fault) ==
  /\ req[r].pc = "handler"
  /\ LET url == req[r].url
     IN  IF ~url.present
         THEN req' = [req EXCEPT ![r].pc = "done",
                        ![r].resp = errorResponse(400, "Missing required field: url", "")]
         ELSE IF ~isValidUrl(url)
         THEN req' = [req EXCEPT ![r].pc = "done",
                        ![r].resp = errorResponse(400,
                           IF url.length > MAX_URL_LENGTH
                           THEN "Invalid URL length" ELSE "Invalid URL format",
                           "ValidationError")]
         ELSE \E cached \in {getCachedResult(db, url, now, fault)} :
                  IF cached = Throw("Error")
                  THEN req' = [req EXCEPT ![r].pc = "done",
                                 ![r].resp = errorResponse(500, "Failed to check URL",
                                                           "InternalServerError")]
                  ELSE IF cached # Null
                  THEN req' = [req EXCEPT ![r].pc = "done",
                                 ![r].resp = checkResponse(url, cached.virusTotalResult,
                                                cached.googleSafeBrowsingResult,
                                                TRUE, cached.cachedAt)]
                  ELSE req' = [req EXCEPT ![r].pc = "sources",
                                 ![r].src = [s \in Sources |->
                                    startCheckUrl(s, extractDomain(url), hasApiKey(s), now)]]
  /\ UNCHANGED <<api, conn, now, ticks, arrivals, config, store, nextSweep, db, disk, got, lastPut>>

\* one attempt of a source ends with the answer resp (an abort exactly when
\* the attempt's timeout is due): retryWithBackoff returns, sleeps, or throws
FetchEnds(r, s, resp) ==
  /\ req[r].pc = "sources"
  /\ req[r].src[s].st = "fetching"
  /\ (resp.status = ABORTED) <=> (now >= req[r].src[s].timer)
  /\ LET call == req[r].src[s]
         domain == extractDomain(req[r].url)
         out == operation(s, resp)
         end == checkUrlEnd(s, domain, out, now)
         settled == [call EXCEPT
                       !.st = IF end.threw # "" THEN "rejected" ELSE "fulfilled",
                       !.timer = -1,
                       !.last = resp.status,
                       !.value = end.data,
                       !.error = checkUrlCaught(s, domain, out, now)]
     IN  req' = [req EXCEPT ![r].src[s] =
           IF out.threw = "" THEN settled
           ELSE IF retryGivesUp(call.attempt, out.threw) THEN settled
           ELSE [call EXCEPT !.st = "sleeping",
                             !.last = resp.status,
                             !.timer = now + delayMs(call.attempt),
                             !.sleeps = Append(@, delayMs(call.attempt))]]
  /\ UNCHANGED <<api, conn, now, ticks, arrivals, config, store, nextSweep, db, disk, got, lastPut>>

\* the backoff delay is over: the next iteration of retryWithBackoff's loop
Wake(r, s) ==
  /\ req[r].pc = "sources"
  /\ req[r].src[s].st = "sleeping"
  /\ now >= req[r].src[s].timer
  /\ req' = [req EXCEPT ![r].src[s] =
       [@ EXCEPT !.st = "fetching", !.attempt = @ + 1, !.invocations = @ + 1,
                 !.timer = now + fetchTimeout(s)]]
  /\ UNCHANGED <<api, conn, now, ticks, arrivals, config, store, nextSweep, db, disk, got, lastPut>>

\* a settled call's result as the route reads it off Promise.allSettled
settledValue(call) == IF call.st = "fulfilled" THEN call.value ELSE Null

\* a handler without the guard: it goes on to the write with no result
allSourcesFailedNever(virusTotalResult, safeBrowsingResult) == FALSE

\* !virusTotalResult && !safeBrowsingResult
allSourcesFailed(virusTotalResult, safeBrowsingResult) == virusTotalResult = Null /\ safeBrowsingResult = Null

\* Promise.allSettled has resolved: 502 if both results are null, otherwise
\* the handler goes on to setCachedResult
Aggregate(r) ==
  /\ req[r].pc = "sources"
  /\ \A s \in Sources : req[r].src[s].st \in {"fulfilled", "rejected"}
  /\ LET virusTotalResult == settledValue(req[r].src["virustotal"])
         safeBrowsingResult == settledValue(req[r].src["google-safe-browsing"])
     IN  IF allSourcesFailed(virusTotalResult, safeBrowsingResult)
         THEN req' = [req EXCEPT ![r].pc = "done",
                        ![r].resp = errorResponse(502, "All reputation sources failed", "")]
         ELSE req' = [req EXCEPT ![r].pc = "write"]
  /\ UNCHANGED <<api, conn, now, ticks, arrivals, config, store, nextSweep, db, disk, got, lastPut>>

\* what a write of the cache leaves for a later reader, told from the fault
putRecord(prev, fault, virusTotalResult, safeBrowsingResult, score, fresh, t) ==
  IF fault = "getDb" THEN prev
  ELSE IF fault = "insert" THEN [NoPut EXCEPT !.ok = prev.ok]
  ELSE [live |-> TRUE, at |-> t, virusTotalResult |-> virusTotalResult,
        googleSafeBrowsingResult |-> safeBrowsingResult,
        combinedRiskScore |-> score, fresh |-> fresh,
        ok |-> IF fault = "save" THEN prev.ok
               ELSE [live |-> TRUE, at |-> t, virusTotalResult |-> virusTotalResult,
                     googleSafeBrowsingResult |-> safeBrowsingResult,
                     combinedRiskScore |-> score],
        reloaded |-> FALSE]

\* setCachedResult, then the 200 response with cached:false
CacheWrite(r, fault) ==
  /\ req[r].pc = "write"
  /\ LET url == req[r].url
         virusTotalResult == settledValue(req[r].src["virustotal"])
         safeBrowsingResult == settledValue(req[r].src["google-safe-browsing"])
         riskScore == combineScores(scoresOf(virusTotalResult, safeBrowsingResult))
         wr == setCachedResult(db, url, virusTotalResult, safeBrowsingResult,
                               riskScore, now, fault)
         response == checkResponse(url, virusTotalResult, safeBrowsingResult,
                                   FALSE, toISOString(now))
     IN  /\ db' = wr.table
         /\ disk' = saveDb(wr.table, disk, wr.saved)
         /\ req' = [req EXCEPT ![r].pc = "done",
                       ![r].resp = IF wr.threw # ""
                                   THEN errorResponse(500, "Failed to check URL",
                                                      "InternalServerError")
                                   ELSE response]
         /\ lastPut' = [lastPut EXCEPT ![extractDomain(url)] =
               putRecord(@, fault, virusTotalResult, safeBrowsingResult,
                         riskScore, response, now)]
  /\ UNCHANGED <<api, conn, now, ticks, arrivals, config, store, nextSweep, got>>

\* the response has been sent; the slot takes the next request
Finish(r) ==
  /\ req[r].pc = "done"
  /\ req' = [req EXCEPT ![r] = IdleReq]
  /\ UNCHANGED <<api, conn, now, ticks, arrivals, config, store, nextSweep, db, disk, got, lastPut>>

(***************************************************************************)
(* The limiter's periodic sweep, and the cache called directly.            *)
(***************************************************************************)
\* the setInterval callback of middleware/rateLimit.ts
Sweep ==
  /\ now >= nextSweep
  /\ store' = sweepStore(store, now)
  /\ nextSweep' = nextSweep + SWEEP_INTERVAL
  /\ UNCHANGED <<api, conn, now, ticks, arrivals, config, db, disk, req, got, lastPut>>

\* setCachedResult called as the route calls it, with the mean as the score
CachePut(url, virusTotalResult, safeBrowsingResult, fault) ==
  /\ virusTotalResult # Null \/ safeBrowsingResult # Null
  /\ LET riskScore == combineScores(scoresOf(virusTotalResult, safeBrowsingResult))
         wr == setCachedResult(db, url, virusTotalResult, safeBrowsingResult,
                               riskScore, now, fault)
         response == checkResponse(url, virusTotalResult, safeBrowsingResult,
                                   FALSE, toISOString(now))
     IN  /\ db' = wr.table
         /\ disk' = saveDb(wr.table, disk, wr.saved)
         /\ lastPut' = [lastPut EXCEPT ![extractDomain(url)] =
               putRecord(@, fault, virusTotalResult, safeBrowsingResult,
                         riskScore, response, now)]
  /\ UNCHANGED <<api, conn, now, ticks, arrivals, config, store, nextSweep, req, got>>

\* the entry of a domain is the one of its last complete write
durable(put) ==
  /\ put.live
  /\ put.ok = [live |-> TRUE, at |-> put.at, virusTotalResult |-> put.virusTotalResult,
                googleSafeBrowsingResult |-> put.googleSafeBrowsingResult,
                combinedRiskScore |-> put.combinedRiskScore]

\* the process is restarted: requests in flight and the limiter's store are
\* lost, and the next getDb() reads the table from the file
Restart ==
  /\ db' = loadDb(disk)
  /\ store' = << >>
  /\ nextSweep' = now + SWEEP_INTERVAL
  /\ req' = [r \in Requests |-> IdleReq]
  /\ lastPut' = [d \in Domains |->
       IF durable(lastPut[d]) THEN [lastPut[d] EXCEPT !.reloaded = TRUE]
       ELSE [NoPut EXCEPT !.ok = lastPut[d].ok]]
  /\ UNCHANGED <<api, conn, now, ticks, arrivals, config, disk, got>>

\* getCachedResult called directly
CacheGet(url, fault) ==
  /\ got' = [url |-> url, at |-> now, result |-> getCachedResult(db, url, now, fault),
             put |-> lastPut[extractDomain(url)]]
  /\ db' = getCachedResultTable(db, url, now, fault)
  /\ UNCHANGED <<api, conn, now, ticks, arrivals, config, store, nextSweep, disk, req, lastPut>>

\* fetchWithRetry is called: offline it throws at once, otherwise the first
\* attempt is in flight
ApiCall(online) ==
  /\ api.pc = "idle"
  /\ api' = IF ~online
            THEN [api EXCEPT !.pc = "thrown", !.error = createApiError("network", 0)]
            ELSE [api EXCEPT !.pc = "fetching"]
  /\ UNCHANGED <<now, ticks, arrivals, config, store, nextSweep, db, disk, req, got, lastPut, conn>>

\* an attempt ends with outcome: one iteration of the loop from the end of
\* fetchWithTimeout to the delay, to the next attempt, or to a throw
ApiFetchEnds(outcome) ==
  /\ api.pc = "fetching"
  /\ LET tried == apiTry(outcome, api.lastError)
         caught == IF outcome.threw # "" THEN NoApiError ELSE tried.threw
         rethrown == caught # NoApiError /\ apiRethrows(caught, api.attempt)
         lastError == IF outcome.threw # "" THEN apiCatch(outcome)
                      ELSE IF caught # NoApiError THEN caught
                      ELSE tried.lastError
         ended == [api EXCEPT !.outcomes = Append(@, outcome), !.lastError = lastError]
     IN  api' =
           IF outcome.threw = "" /\ tried.returned
           THEN [api EXCEPT !.outcomes = Append(@, outcome), !.pc = "returned"]
           ELSE IF rethrown
           THEN [api EXCEPT !.outcomes = Append(@, outcome), !.pc = "thrown",
                            !.error = caught]
           ELSE IF api.attempt < MAX_RETRIES /\ lastError.retryable
           THEN [ended EXCEPT !.pc = "delay",
                              !.sleeps = Append(@, apiDelayMs(api.attempt))]
           ELSE IF api.attempt + 1 <= MAX_RETRIES
           THEN [ended EXCEPT !.attempt = @ + 1]
           ELSE [ended EXCEPT !.pc = "thrown",
                              !.error = IF lastError # NoApiError THEN lastError
                                        ELSE createApiError("unknown", 0)]
  /\ UNCHANGED <<now, ticks, arrivals, config, store, nextSweep, db, disk, req, got, lastPut, conn>>

\* the delay is over: attempt++ and the next attempt is in flight
ApiWake ==
  /\ api.pc = "delay"
  /\ api' = [api EXCEPT !.pc = "fetching", !.attempt = @ + 1]
  /\ UNCHANGED <<now, ticks, arrivals, config, store, nextSweep, db, disk, req, got, lastPut, conn>>

\* db.export() of the module's db, written to the file by saveDb
exportDb(handles, h) == [exists |-> TRUE, table |-> handles[h].table, rows |-> handles[h].rows]

\* new SQL.Database(buffer) if the file exists, else new SQL.Database()
newDatabase(file) ==
  IF file.exists THEN [table |-> file.table, rows |-> file.rows]
  ELSE [table |-> FALSE, rows |-> {}]

\* getDb up to its first await or, with the module's db set, to its return
GetDbCall(c) ==
  /\ conn.pc[c] = "idle"
  /\ conn' = IF conn.db # 0
             THEN [conn EXCEPT !.pc[c] = "returned", !.handle[c] = conn.db]
             ELSE [conn EXCEPT !.pc[c] = "initSqlJs", !.early[c] = TRUE]
  /\ UNCHANGED <<now, ticks, arrivals, config, store, nextSweep, db, disk, req, got, lastPut, api>>

\* initSqlJs() has resolved: the Database is created and assigned to the
\* module's db, and runMigrations runs up to its await of getDb() (which
\* returns the db just assigned) or, with initialized set, returns
GetDbOpen(c) ==
  /\ conn.pc[c] = "initSqlJs"
  /\ LET h == Len(conn.handles) + 1
     IN  conn' = [conn EXCEPT !.handles = Append(@, newDatabase(conn.file)),
                              !.db = h,
                              !.mine[c] = IF conn.initialized THEN 0 ELSE h,
                              !.pc[c] = IF conn.initialized THEN "migrated" ELSE "migrating"]
  /\ UNCHANGED <<now, ticks, arrivals, config, store, nextSweep, db, disk, req, got, lastPut, api>>

\* runMigrations after its await: CREATE TABLE IF NOT EXISTS on the handle
\* it got, saveDb() of the module's db, initialized = true
RunMigrations(c) ==
  /\ conn.pc[c] = "migrating"
  /\ LET handles == [conn.handles EXCEPT ![conn.mine[c]].table = TRUE]
     IN  conn' = [conn EXCEPT !.handles = handles,
                              !.file = exportDb(handles, conn.db),
                              !.initialized = TRUE,
                              !.pc[c] = "migrated"]
  /\ UNCHANGED <<now, ticks, arrivals, config, store, nextSweep, db, disk, req, got, lastPut, api>>

\* getDb after its await of runMigrations(): return db
GetDbReturn(c) ==
  /\ conn.pc[c] = "migrated"
  /\ conn' = [conn EXCEPT !.pc[c] = "returned", !.handle[c] = conn.db]
  /\ UNCHANGED <<now, ticks, arrivals, config, store, nextSweep, db, disk, req, got, lastPut, api>>

\* the caller is setCachedResult: INSERT through the handle it got, then
\* saveDb(); without the table the INSERT throws, which the catch swallows
DbWrite(c) ==
  /\ conn.pc[c] = "returned"
  /\ conn.wrote[c] = "no"
  /\ LET h == conn.handle[c]
         handles == [conn.handles EXCEPT ![h].rows = @ \cup {c}]
     IN  conn' = IF conn.handles[h].table
                THEN [conn EXCEPT !.handles = handles,
                                  !.file = exportDb(handles, conn.db),
                                  !.wrote[c] = "yes"]
                ELSE [conn EXCEPT !.wrote[c] = "failed"]
  /\ UNCHANGED <<now, ticks, arrivals, config, store, nextSweep, db, disk, req, got, lastPut, api>>

\* the caller is getCachedResult: SELECT through the handle it got; without
\* the table the SELECT throws, which the catch turns into null
DbRead(c) ==
  /\ conn.pc[c] = "returned"
  /\ LET h == conn.handle[c]
     IN  conn' = [conn EXCEPT !.seen[c] =
                    IF conn.handles[h].table THEN conn.handles[h].rows ELSE {}]
  /\ UNCHANGED <<now, ticks, arrivals, config, store, nextSweep, db, disk, req, got, lastPut, api>>

(***************************************************************************)
(* Specifications.                                                         *)
(***************************************************************************)
\* The request flow with both API keys set: two request slots, one client.
FlowUrls == {Url("http:", AdsIo, <<"/">>), FtpUrl}

FlowResponses(s) ==
  IF s = "virustotal"
  THEN {VtStats(6, 1, 3, 60), Resp(429, TRUE, VtEmpty), Resp(503, TRUE, VtEmpty),
        Resp(401, TRUE, VtEmpty), Resp(ABORTED, FALSE, VtEmpty)}
  ELSE {Resp(200, TRUE, GsbBody(<<"UNWANTED_SOFTWARE">>)), Resp(429, TRUE, GsbBody(<< >>)),
        Resp(503, TRUE, GsbBody(<< >>)), Resp(FETCH_FAILED, FALSE, GsbBody(<< >>)),
        Resp(ABORTED, FALSE, GsbBody(<< >>))}

FlowRequests == {"r1"}

Next ==
  \/ TickToTimer
  \/ \E r \in FlowRequests, url \in FlowUrls :
       arrivals < MaxArrivals /\ Arrive(r, Headers("", ""), url, MaxArrivals)
  \/ \E r \in FlowRequests : Handle(r, "none")
  \/ \E r \in FlowRequests, s \in Sources :
       \E resp \in FlowResponses(s) : FetchEnds(r, s, resp)
  \/ \E r \in FlowRequests, s \in Sources : Wake(r, s)
  \/ \E r \in FlowRequests : Aggregate(r)
  \/ \E r \in FlowRequests : CacheWrite(r, "none")
  \/ \E r \in FlowRequests : Finish(r)

BothKeys == [virusTotalApiKey |-> TRUE, googleSafeBrowsingApiKey |-> TRUE]

NoKeys == [virusTotalApiKey |-> FALSE, googleSafeBrowsingApiKey |-> FALSE]

Spec == InitWith({BothKeys}) /\ [][Next]_vars

\* The request flow when timers fire and the handler's own steps are taken:
\* an armed timer comes due, an attempt whose timeout is due is aborted, a
\* sleep that is over is followed by the next attempt, and the handler and
\* the cache calls return.  Nothing obliges a source to answer.
LiveResponses(s) ==
  IF s = "virustotal"
  THEN {VtStats(6, 1, 3, 60), Resp(503, TRUE, VtEmpty), Resp(ABORTED, FALSE, VtEmpty)}
  ELSE {Resp(200, TRUE, GsbBody(<< >>)), Resp(429, TRUE, GsbBody(<< >>)),
        Resp(ABORTED, FALSE, GsbBody(<< >>))}

NextLive ==
  \/ TickToTimer
  \/ \E r \in FlowRequests, url \in FlowUrls :
       arrivals < MaxArrivals /\ Arrive(r, Headers("", ""), url, MaxArrivals)
  \/ \E r \in FlowRequests : Handle(r, "none")
  \/ \E r \in FlowRequests, s \in Sources :
       \E resp \in LiveResponses(s) : FetchEnds(r, s, resp)
  \/ \E r \in FlowRequests, s \in Sources : Wake(r, s)
  \/ \E r \in FlowRequests : Aggregate(r)
  \/ \E r \in FlowRequests : CacheWrite(r, "none")
  \/ \E r \in FlowRequests : Finish(r)

SpecLive ==
  /\ InitWith({BothKeys})
  /\ [][NextLive]_vars
  /\ WF_vars(\/ TickToTimer
             \/ \E r \in FlowRequests :
                  \/ Handle(r, "none")
                  \/ Aggregate(r)
                  \/ CacheWrite(r, "none")
                  \/ \E s \in Sources :
                       \/ Wake(r, s)
                       \/ \E resp \in LiveResponses(s) :
                            resp.status = ABORTED /\ FetchEnds(r, s, resp))

\* The cache called directly on one domain: puts, gets and clock advances.
CacheUrls == {Url("http:", AdsIo, <<"/">>), Url("https:", AdsIo, <<"/", "x">>)}

CacheVtResults ==
  {Null, virusTotalFromData(AdsIo, VtStats(6, 1, 3, 60).body, 0).data}

CacheGsbResults ==
  {Null,
   safeBrowsingFromData(AdsIo, GsbBody(<<"UNWANTED_SOFTWARE">>), 0).data,
   safeBrowsingFromData(AdsIo, GsbBody(<< >>), 0).data}

NextCache ==
  \/ \E d \in {1, DEFAULT_TTL} : Tick(d)
  \/ \E url \in CacheUrls, vt \in CacheVtResults, gsb \in CacheGsbResults :
       CachePut(url, vt, gsb, "none")
  \/ \E url \in CacheUrls : CacheGet(url, "none")

SpecCache == InitWith({BothKeys}) /\ [][NextCache]_vars

\* The route over the cache with no API key set: both adapters answer with
\* their mock result at once, the clock advances freely between steps, and
\* the cache is also read directly.
WarmUrls ==
  {Url("http:", AdsIo, <<"/">>), Url("https:", AdsIo, <<"/", "x">>),
   [Url("https:", AdsIo, <<"/", "x", "?", "q">>) EXCEPT !.port = "8443", !.length = @ + 5],
   Url("http:", TestIo, <<"/">>)}

NextWarm ==
  \/ \E d \in {1, DEFAULT_TTL} : Tick(d)
  \/ \E r \in FlowRequests, url \in WarmUrls :
       arrivals < MaxArrivals /\ Arrive(r, Headers("", ""), url, MaxArrivals)
  \/ \E r \in FlowRequests : Handle(r, "none")
  \/ \E r \in FlowRequests : Aggregate(r)
  \/ \E r \in FlowRequests : CacheWrite(r, "none")
  \/ \E r \in FlowRequests : Finish(r)
  \/ \E url \in WarmUrls : CacheGet(url, "none")

SpecWarm == InitWith({NoKeys}) /\ [][NextWarm]_vars

\* The cache called directly on one domain, with statements that throw and
\* with restarts of the process.
StoreUrls == {Url("http:", AdsIo, <<"/">>)}

WriteFaults == {"none", "getDb", "insert", "save"}

\* the results put: both sources, or Safe Browsing alone
StoreResults ==
  {<<virusTotalFromData(AdsIo, VtStats(6, 1, 3, 60).body, 0).data,
     safeBrowsingFromData(AdsIo, GsbBody(<< >>), 0).data>>,
   <<Null, safeBrowsingFromData(AdsIo, GsbBody(<<"UNWANTED_SOFTWARE">>), 0).data>>}

NextStore ==
  \/ \E d \in {1, DEFAULT_TTL} : Tick(d)
  \/ \E url \in StoreUrls, res \in StoreResults, fault \in WriteFaults :
       CachePut(url, res[1], res[2], fault)
  \/ \E url \in StoreUrls : CacheGet(url, "none")
  \/ Restart

SpecStore == InitWith({BothKeys}) /\ [][NextStore]_vars

\* The route over the cache with no API key set, with cache statements that
\* throw.
FaultUrls == {Url("http:", AdsIo, <<"/">>), Url("http:", TestIo, <<"/">>)}

NextFault ==
  \/ \E d \in {1, DEFAULT_TTL} : Tick(d)
  \/ \E r \in FlowRequests, url \in FaultUrls :
       arrivals < MaxArrivals /\ Arrive(r, Headers("", ""), url, MaxArrivals)
  \/ \E r \in FlowRequests, fault \in {"none", "getDb"} : Handle(r, fault)
  \/ \E r \in FlowRequests : Aggregate(r)
  \/ \E r \in FlowRequests, fault \in WriteFaults : CacheWrite(r, fault)
  \/ \E r \in FlowRequests : Finish(r)

SpecFault == InitWith({NoKeys}) /\ [][NextFault]_vars

\* The limiter in front of the route with no API key set: one client that
\* goes over the limit and another that does not, at one instant.
RejectUrls == {Url("http:", AdsIo, <<"/">>), MissingUrl}

NextReject ==
  \/ \E r \in FlowRequests, url \in RejectUrls :
       \/ Arrive(r, Headers("10.0.0.1", ""), url, LIMIT + MaxOver)
       \/ Arrive(r, Headers("", "10.0.0.2"), url, MaxOver)
  \/ \E r \in FlowRequests : Handle(r, "none")
  \/ \E r \in FlowRequests : Aggregate(r)
  \/ \E r \in FlowRequests : CacheWrite(r, "none")
  \/ \E r \in FlowRequests : Finish(r)

SpecReject == InitWith({NoKeys}) /\ [][NextReject]_vars

\* The route with no API key set, given urls that pass the validation and
\* urls that do not.
NextValid ==
  \/ \E r \in FlowRequests, url \in ValidUrls \cup InvalidUrls :
       arrivals < MaxArrivals /\ Arrive(r, Headers("", ""), url, MaxArrivals)
  \/ \E r \in FlowRequests : Handle(r, "none")
  \/ \E r \in FlowRequests : Aggregate(r)
  \/ \E r \in FlowRequests : CacheWrite(r, "none")
  \/ \E r \in FlowRequests : Finish(r)

SpecValid == InitWith({NoKeys}) /\ [][NextValid]_vars

\* The route with both API keys set and no retry: VirusTotal reports m
\* detections out of 100 engines for every m, or is rate-limited; Safe
\* Browsing reports no match, or is rate-limited.
NextLevels ==
  \/ \E r \in FlowRequests :
       arrivals < MaxArrivals
         /\ Arrive(r, Headers("", ""), Url("http:", OkIo, <<"/">>), MaxArrivals)
  \/ \E r \in FlowRequests : Handle(r, "none")
  \/ \E r \in FlowRequests :
       \/ \E m \in 0..100 : FetchEnds(r, "virustotal", VtStats(m, 0, 100 - m, 0))
       \/ FetchEnds(r, "virustotal", Resp(429, TRUE, VtEmpty))
       \/ \E resp \in {Resp(200, TRUE, GsbBody(<< >>)), Resp(429, TRUE, GsbBody(<< >>))} :
            FetchEnds(r, "google-safe-browsing", resp)
  \/ \E r \in FlowRequests : Aggregate(r)
  \/ \E r \in FlowRequests : CacheWrite(r, "none")
  \/ \E r \in FlowRequests : Finish(r)

SpecLevels == InitWith({BothKeys}) /\ [][NextLevels]_vars

\* Two requests in flight at once for one domain, with both API keys set and
\* sources that answer on the first attempt; the cache is also read directly.
\* DELETE, INSERT and saveDb() follow setCachedResult's only await with no
\* await between them, so the write is one step.
NextRace ==
  \/ \E r \in Requests, url \in CacheUrls :
       arrivals < MaxArrivals /\ Arrive(r, Headers("", ""), url, MaxArrivals)
  \/ \E r \in Requests : Handle(r, "none")
  \/ \E r \in Requests :
       \/ \E resp \in {VtStats(6, 1, 3, 60), VtStats(10, 4, 6, 50)} :
            FetchEnds(r, "virustotal", resp)
       \/ FetchEnds(r, "google-safe-browsing", Resp(200, TRUE, GsbBody(<< >>)))
  \/ \E r \in Requests : Aggregate(r)
  \/ \E r \in Requests : CacheWrite(r, "none")
  \/ \E r \in Requests : Finish(r)
  \/ \E url \in CacheUrls : CacheGet(url, "none")

SpecRace == InitWith({BothKeys}) /\ [][NextRace]_vars

\* The extension's fetchWithRetry alone, over what its attempts end with.
ApiOutcomes ==
  {FetchResponse(200), FetchResponse(404), FetchResponse(429), FetchResponse(503),
   FetchThrows("AbortError", <<"a", "b", "o", "r", "t", "e", "d">>),
   FetchThrows("TypeError", <<"F", "a", "i", "l", "e", "d", " ", "t", "o", " ", "f", "e", "t", "c", "h">>),
   FetchThrows("TypeError", <<"L", "o", "a", "d", " ", "f", "a", "i", "l", "e", "d">>)}

NextApi ==
  \/ \E online \in BOOLEAN : ApiCall(online)
  \/ \E outcome \in ApiOutcomes : ApiFetchEnds(outcome)
  \/ ApiWake

SpecApi == InitWith({BothKeys}) /\ [][NextApi]_vars

\* The database module alone: the first getDb calls of two requests, each
\* followed by a write and by reads through the handle it got.
NextConn ==
  \/ \E c \in Requests : GetDbCall(c)
  \/ \E c \in Requests : GetDbOpen(c)
  \/ \E c \in Requests : RunMigrations(c)
  \/ \E c \in Requests : GetDbReturn(c)
  \/ \E c \in Requests : DbWrite(c)
  \/ \E c \in Requests : DbRead(c)

SpecConn == InitWith({BothKeys}) /\ [][NextConn]_vars

\* The limiter with its periodic sweep: three client keys, one of which goes
\* over the limit, and a clock that advances by whole windows.
NextSweep ==
  \/ \E d \in {WINDOW, 2 * WINDOW, 3 * WINDOW, 4 * WINDOW} : Tick(d)
  \/ \E r \in FlowRequests, h \in AllHeaders :
       Arrive(r, h, MissingUrl, IF h = Headers("10.0.0.1", "") THEN LIMIT + 1 ELSE MaxOver)
  \/ \E r \in FlowRequests : Handle(r, "none")
  \/ \E r \in FlowRequests : Finish(r)
  \/ Sweep

SpecSweep == InitWith({BothKeys}) /\ [][NextSweep]_vars

\* The ingress limiter: requests without a url, which end in the handler's 400.
LimiterHeaders == {Headers("10.0.0.1", "10.0.0.2"), Headers("10.0.0.1", "")}

NextLimiter ==
  \/ \E d \in {1, 999, WINDOW} : Tick(d)
  \/ \E r \in FlowRequests, h \in LimiterHeaders : Arrive(r, h, MissingUrl, LIMIT + MaxOver)
  \/ \E r \in FlowRequests : Handle(r, "none")
  \/ \E r \in FlowRequests : Finish(r)

SpecLimiter == InitWith({BothKeys}) /\ [][NextLimiter]_vars

(***************************************************************************)
(* Properties.                                                             *)
(***************************************************************************)
\* the requests that have been answered
Answered == {r \in Requests : req[r].pc = "done"}

\* the sources of an answered request that went through checkUrl
Called(r) == {s \in Sources : req[r].src[s].st \in {"fulfilled", "rejected"}}

\* position of a source in the response's sources list
sourceIndex(s) == IF s = "virustotal" THEN 1 ELSE 2

\* C1: if one source's check ends with a rate-limit error, the request is
\* answered 429 with retry guidance and carries no combined risk result,
\* even when the other source succeeded.
C1_RateLimitFailsRequest ==
  \A r \in Answered :
    (\E s \in Sources : req[r].src[s].error = "RateLimitError")
      => /\ req[r].resp.status = 429
         /\ req[r].resp.retryAfter = 60
         /\ req[r].resp.riskLevel = ""

\* C2: if one source ends with an error other than a rate limit while the
\* other source succeeds with score s, the request is answered 200 with
\* riskScore = s and the failed source is listed as an unavailable placeholder.
C2_FailedSourceIsPlaceholder ==
  \A r \in Answered : \A failed \in Sources, ok \in Sources :
    ( /\ req[r].src[failed].st \in {"fulfilled", "rejected"}
      /\ req[r].src[failed].error \notin {"", "RateLimitError"}
      /\ req[r].src[ok].st = "fulfilled"
      /\ req[r].src[ok].error = "" )
      => /\ req[r].resp.status = 200
         /\ RatEq(req[r].resp.riskScore, req[r].src[ok].value.riskScore)
         /\ req[r].resp.sources[sourceIndex(failed)].error = "Service unavailable"

\* C3: if every source ends with an error, the request is answered 502 and
\* carries no risk result.
C3_AllFailedIs502 ==
  \A r \in Answered :
    ( /\ Called(r) = Sources
      /\ \A s \in Sources : req[r].src[s].error # "" )
      => /\ req[r].resp.status = 502
         /\ req[r].resp.riskLevel = ""

\* the sources whose promise fulfilled, and the sum of their scores
Succeeded(r) == {s \in Sources : req[r].src[s].st = "fulfilled"}

RECURSIVE SumOver(_, _)
SumOver(r, S) ==
  IF S = {} THEN Rat(0, 1)
  ELSE LET s == CHOOSE x \in S : TRUE
       IN  RatAdd(req[r].src[s].value.riskScore, SumOver(r, S \ {s}))

putOf(r) == lastPut[extractDomain(req[r].url)]

\* C5: a get returns none when there is no entry for the domain or the time
\* of the get is past the entry's expiresAt, and returns the entry (with that
\* expiresAt) while now <= expiresAt; and a route step that answers with
\* cached:true reads an entry that is at most DEFAULT_TTL old.
C5_NoStaleEntry ==
  /\ [](got.at # -1 =>
          IF ~got.put.live \/ got.at > got.put.at + DEFAULT_TTL
          THEN got.result = Null
          ELSE /\ got.result # Null
               /\ got.result.cachedAt = toISOString(got.put.at)
               /\ got.result.expiresAt = toISOString(got.put.at + DEFAULT_TTL))
  /\ [][\A r \in Requests :
          (req[r].pc = "handler" /\ req'[r].pc = "done" /\ req'[r].resp.cached)
            => /\ putOf(r).live
               /\ now <= putOf(r).at + DEFAULT_TTL
               /\ req'[r].resp.checkedAt = toISOString(putOf(r).at)]_vars

\* C5 witness: a get of a domain whose entry is older than the TTL came back
\* with none
C5_Witness ==
  /\ got.at # -1
  /\ got.put.live
  /\ got.at > got.put.at + DEFAULT_TTL
  /\ got.result = Null

\* C6: when a check of a url has written the cache and answered cached:false,
\* a later check of the same url no later than DEFAULT_TTL after that write is
\* answered 200 with cached:true and the riskScore and riskLevel of the first
\* answer, and neither checkUrl is called.
C6_SecondCheckIsCached ==
  [][\A r \in Requests :
       ( /\ req[r].pc = "handler" /\ req'[r].pc # "handler"
         /\ isValidUrl(req[r].url)
         /\ putOf(r).live
         /\ putOf(r).fresh.url = req[r].url
         /\ now <= putOf(r).at + DEFAULT_TTL )
         => /\ req'[r].pc = "done"
            /\ req'[r].resp.status = 200
            /\ req'[r].resp.cached
            /\ ~putOf(r).fresh.cached
            /\ req'[r].resp.riskScore = putOf(r).fresh.riskScore
            /\ req'[r].resp.riskLevel = putOf(r).fresh.riskLevel
            /\ \A s \in Sources : req'[r].src[s] = IdleCall]_vars

\* C6 witness: a url checked again some time after its first check is
\* answered from the cache without a source call
C6_Witness ==
  \E r \in Answered :
    /\ req[r].resp.status = 200 /\ req[r].resp.cached
    /\ putOf(r).live /\ putOf(r).fresh.url = req[r].url
    /\ now > putOf(r).at
    /\ \A s \in Sources : req[r].src[s].st = "idle"

\* the rows of a domain
entriesOf(d) == dbSelect(db, d)

\* C7: the table holds at most one row per domain, exactly one once the
\* domain has been put, and that row is the most recent put; a get that
\* returns an entry returns the values of the put that preceded it.
C7_OneEntryPerDomain ==
  /\ \A d \in Domains :
       /\ Len(entriesOf(d)) = (IF lastPut[d].live THEN 1 ELSE 0)
       /\ lastPut[d].live =>
            /\ entriesOf(d)[1].created_at = lastPut[d].at
            /\ entriesOf(d)[1].combined_risk_score = lastPut[d].combinedRiskScore
            /\ entriesOf(d)[1].virustotal_score =
                 (IF lastPut[d].virusTotalResult # Null
                  THEN lastPut[d].virusTotalResult.riskScore ELSE Null)
            /\ entriesOf(d)[1].googlesafebrowsing_score =
                 (IF lastPut[d].googleSafeBrowsingResult # Null
                  THEN lastPut[d].googleSafeBrowsingResult.riskScore ELSE Null)
  /\ (got.at # -1 /\ got.result # Null) =>
       /\ got.put.live
       /\ got.result.cachedAt = toISOString(got.put.at)
       /\ got.result.combinedRiskScore = got.put.combinedRiskScore

\* C7 witness: a domain was put, read, and put again later with another
\* score; the table holds the one row of the later put
C7_Witness ==
  \E d \in Domains :
    /\ got.at # -1 /\ extractDomain(got.url) = d
    /\ got.put.live /\ got.result # Null
    /\ lastPut[d].live
    /\ lastPut[d].at > got.put.at
    /\ lastPut[d].combinedRiskScore # got.put.combinedRiskScore
    /\ Len(entriesOf(d)) = 1

\* the response the route builds from a cached entry
rebuilt(url, cached) ==
  checkResponse(url, cached.virusTotalResult, cached.googleSafeBrowsingResult,
                TRUE, cached.cachedAt)

\* C8: a get no later than DEFAULT_TTL after a put returns an entry whose
\* per-source results and combined score are those that were put, and the
\* response rebuilt from it has the riskScore and riskLevel of the fresh one.
C8_PutGetRoundTrip ==
  (got.at # -1 /\ got.put.live /\ got.at <= got.put.at + DEFAULT_TTL) =>
    /\ got.result # Null
    /\ got.result.virusTotalResult = got.put.virusTotalResult
    /\ got.result.googleSafeBrowsingResult = got.put.googleSafeBrowsingResult
    /\ got.result.combinedRiskScore = got.put.combinedRiskScore
    /\ rebuilt(got.url, got.result).riskScore = got.put.fresh.riskScore
    /\ rebuilt(got.url, got.result).riskLevel = got.put.fresh.riskLevel
    /\ got.put.fresh.riskScore = got.put.combinedRiskScore

\* C8 witness: a put of a result with one source missing was read back at the
\* last instant of its TTL
C8_Witness ==
  /\ got.at # -1 /\ got.put.live
  /\ got.at = got.put.at + DEFAULT_TTL
  /\ got.result # Null
  /\ got.put.virusTotalResult = Null
  /\ got.put.googleSafeBrowsingResult # Null

\* the limiter's entry of the client of a request
entryOf(r) == store[getClientIp(req[r].headers)]

\* C9: in a window the requests counted 1..60 are let through to the handler
\* and the one counted 60 reports remaining 0; every request counted above 60
\* is answered 429; a request arriving within the window is counted onto it,
\* and the first one after the reset time is let through with count 1 in a
\* new window of 60 s.
C9_FixedWindow ==
  /\ [](\A r \in Requests : req[r].pc # "idle" =>
          /\ entryOf(r).count >= 1
          /\ entryOf(r).count <= 60 =>
               /\ req[r].resp.status # 429
               /\ req[r].rl.remaining = 60 - entryOf(r).count
               /\ req[r].pc = "done" => req[r].resp.status = 400
          /\ entryOf(r).count > 60 =>
               /\ req[r].pc = "done"
               /\ req[r].resp.status = 429
               /\ req[r].rl.remaining = 0)
  /\ [][\A r \in Requests :
          (req[r].pc = "idle" /\ req'[r].pc # "idle") =>
            LET clientIp == getClientIp(req'[r].headers)
            IN  IF clientIp \in DOMAIN store /\ now <= store[clientIp].resetTime
                THEN /\ store'[clientIp].count = store[clientIp].count + 1
                     /\ store'[clientIp].resetTime = store[clientIp].resetTime
                ELSE /\ store'[clientIp].count = 1
                     /\ store'[clientIp].resetTime = now + 60000
                     /\ req'[r].pc = "handler"]_vars

\* C9 witness: the 61st request of a window has been answered 429
C9_Witness ==
  \E r \in Answered :
    /\ entryOf(r).count = 61
    /\ req[r].resp.status = 429

\* C10: a request the limiter answers 429 carries X-RateLimit-Limit 60,
\* X-RateLimit-Remaining 0 and, as Retry-After header and as retryAfter of
\* the body, the least number of whole seconds that covers the time left
\* from its arrival to the reset of the client's window; the body names the
\* limit 60.
C10_RejectionHeaders ==
  \A r \in Answered :
    req[r].resp.status = 429 =>
      LET left == entryOf(r).resetTime - req[r].at
      IN  /\ req[r].rl.limit = 60
          /\ req[r].resp.limit = 60
          /\ req[r].rl.remaining = 0
          /\ req[r].rl.reset = entryOf(r).resetTime
          /\ req[r].rl.retryAfter = req[r].resp.retryAfter
          /\ req[r].resp.retryAfter * 1000 >= left
          /\ (req[r].resp.retryAfter - 1) * 1000 < left
          /\ left >= 0

\* C10 witness: a 429 whose time left is no whole number of seconds
C10_Witness ==
  \E r \in Answered :
    /\ req[r].resp.status = 429
    /\ (entryOf(r).resetTime - req[r].at) % 1000 # 0
    /\ req[r].resp.retryAfter = 60

\* the checkUrl calls, and those that have settled
Calls == {req[r].src[s] : r \in Requests, s \in Sources}

Settled == {call \in Calls : call.st \in {"fulfilled", "rejected"}}

\* HTTP statuses that the adapters answer with a non-retryable error
NonRetryableStatuses == {400, 401, 403, 429}

\* C11: once an attempt of a source call has ended with a rate limit (429)
\* or another 4xx error, the call is over: it never sleeps or fetches again,
\* the attempts made are one more than the sleeps taken before (exactly one
\* attempt if it was the first), and the error handed on is the one thrown.
C11_NonRetryableOnce ==
  \A call \in Calls :
    call.last \in NonRetryableStatuses =>
      /\ call.st \in {"fulfilled", "rejected"}
      /\ call.invocations = call.attempt + 1
      /\ Len(call.sleeps) = call.attempt
      /\ call.error = (IF call.last = 429 THEN "RateLimitError" ELSE "Error")

\* C11 witness: a call rate-limited on its first attempt, over after one
\* invocation and no sleep
C11_Witness ==
  \E call \in Settled :
    /\ call.last = 429
    /\ call.invocations = 1
    /\ call.sleeps = << >>
    /\ call.error = "RateLimitError"

\* how a fetch ends when it fails with a timeout, a network failure or a 5xx
RetryableStatuses == {ABORTED, FETCH_FAILED} \cup 500..599

\* C12: a source call that ended with an error after its last attempt failed
\* with a timeout, a network failure or a 5xx has invoked the operation
\* exactly 3 times.
C12_RetryableUsesBudget ==
  \A call \in Settled :
    (call.error # "" /\ call.last \in RetryableStatuses) => call.invocations = 3

\* C13: the sleeps of a call are 1000 ms, then 2000 ms: one before each
\* retry, none after the last attempt; a call that made 3 attempts slept
\* 1000 and 2000; and a sleep that begins ends 1000 * 2^k ms later, k being
\* the number of retries made before.
C13_BackoffDelays ==
  /\ [](\A call \in Calls :
          /\ Len(call.sleeps) <= 2
          /\ \A k \in 1..Len(call.sleeps) : call.sleeps[k] = <<1000, 2000>>[k]
          /\ call.st = "sleeping" => Len(call.sleeps) = call.attempt + 1
          /\ call.st \in {"fetching", "fulfilled", "rejected"} =>
               Len(call.sleeps) = call.invocations - 1
          /\ (call.st \in {"fulfilled", "rejected"} /\ call.invocations = 3) =>
               call.sleeps = <<1000, 2000>>)
  /\ [][\A r \in Requests, s \in Sources :
          /\ (req[r].src[s].st = "fetching" /\ req'[r].src[s].st = "sleeping") =>
               req'[r].src[s].timer = now + <<1000, 2000>>[req[r].src[s].attempt + 1]
          /\ (req[r].src[s].st = "sleeping" /\ req'[r].src[s].st = "fetching") =>
               now = req[r].src[s].timer]_vars

\* C13 witness: a call whose 3 attempts all failed, after sleeps of 1000 and
\* 2000 ms
C13_Witness ==
  \E call \in Settled :
    /\ call.invocations = 3
    /\ call.sleeps = <<1000, 2000>>
    /\ call.error \in {"NetworkError", "TimeoutError"}

\* C14: an attempt begins with its timeout armed 10 s (VirusTotal) or 5 s
\* (Safe Browsing) ahead and is never in flight after it; an attempt that
\* reaches the timeout ends aborted, and is then followed by a sleep and a
\* retry unless it was the 3rd attempt, in which case the call ends with the
\* timeout error.
C14_AttemptTimeout ==
  /\ [](\A call \in Calls : call.st = "fetching" => now <= call.timer)
  /\ [][\A r \in Requests, s \in Sources :
          LET call == req[r].src[s]
              after == req'[r].src[s]
          IN  /\ (call.st # "fetching" /\ after.st = "fetching") =>
                   after.timer = now + (IF s = "virustotal" THEN 10000 ELSE 5000)
              /\ (call.st = "fetching" /\ now = call.timer /\ after # call) =>
                   /\ after.last = ABORTED
                   /\ after.invocations = call.invocations
                   /\ IF call.invocations < 3
                      THEN /\ after.st = "sleeping"
                           /\ after.sleeps = Append(call.sleeps, <<1000, 2000>>[call.invocations])
                      ELSE /\ after.st \in {"fulfilled", "rejected"}
                           /\ after.error = "TimeoutError"]_vars

\* C14 witness: a call whose 3 attempts all ran into the timeout
C14_Witness ==
  \E r \in Requests :
    /\ req[r].src["google-safe-browsing"].st \in {"fulfilled", "rejected"}
    /\ req[r].src["google-safe-browsing"].error = "TimeoutError"
    /\ req[r].src["google-safe-browsing"].invocations = 3
    /\ now >= req[r].at + 5000 + 1000 + 5000 + 2000 + 5000

\* a request whose aggregation failed: every source ended with an error, or
\* one of them ended with a rate-limit error
aggregationFailed(r) ==
  /\ \A s \in Sources : req[r].src[s].st \in {"fulfilled", "rejected"}
  /\ \/ \A s \in Sources : req[r].src[s].error # ""
     \/ \E s \in Sources : req[r].src[s].error = "RateLimitError"

\* C15: no step of a request whose aggregation failed changes the cache
\* table or its file.
C15_FailedAggregationWritesNothing ==
  [][\A r \in Requests :
       (aggregationFailed(r) /\ req'[r] # req[r]) => (db' = db /\ disk' = disk)]_vars

\* the response of the miss path, computed from what the sources returned
freshResponse(r, t) ==
  checkResponse(req[r].url, settledValue(req[r].src["virustotal"]),
                settledValue(req[r].src["google-safe-browsing"]),
                FALSE, toISOString(t))

\* C16: the step that writes the cache answers the request 200 with
\* cached:false and the riskScore and riskLevel computed from the sources'
\* results, whether the write went through or a statement of it threw.
C16_WriteFailureSwallowed ==
  [][\A r \in Requests :
       (req[r].pc = "write" /\ req'[r].pc = "done") =>
         /\ req'[r].resp.status = 200
         /\ ~req'[r].resp.cached
         /\ req'[r].resp.riskScore = freshResponse(r, now).riskScore
         /\ req'[r].resp.riskLevel = freshResponse(r, now).riskLevel
         /\ req'[r].resp = freshResponse(r, now)]_vars

\* C16 witness: a request answered 200 with a fresh result at a time when
\* the table holds no entry for its domain: the insert had failed
C16_Witness ==
  \E r \in Answered :
    /\ req[r].resp.status = 200 /\ ~req[r].resp.cached
    /\ req[r].resp.riskScore.den # 0
    /\ dbSelect(db, extractDomain(req[r].url)) = << >>

\* C17: no source is called before the handler has looked the url up, and
\* the lookup of a valid url ends in a cached answer or in the calls of the
\* sources, never in an error answer, also when the read throws.
C17_ReadErrorIsMiss ==
  /\ [](\A r \in Requests :
          req[r].pc \in {"idle", "handler"} =>
            \A s \in Sources : req[r].src[s].st = "idle")
  /\ [][\A r \in Requests :
          (req[r].pc = "handler" /\ req'[r].pc # "handler" /\ isValidUrl(req[r].url)) =>
            \/ /\ req'[r].pc = "done"
               /\ req'[r].resp.status = 200
               /\ req'[r].resp.cached
               /\ \A s \in Sources : req'[r].src[s].st = "idle"
            \/ /\ req'[r].pc = "sources"
               /\ req'[r].resp = NoResponse
               /\ \A s \in Sources : req'[r].src[s].st # "idle"]_vars

\* C17 witness: a request went on to its sources although the table holds an
\* entry for its domain that has not expired: the read had thrown
C17_Witness ==
  \E r \in Requests :
    /\ req[r].pc = "sources"
    /\ putOf(r).live
    /\ now <= putOf(r).at + DEFAULT_TTL
    /\ readCache(db, req[r].url, now) # Null

\* C18: a get returns the entry of the last put of the domain that
\* completed without error (with createdAt and expiresAt = createdAt + TTL
\* of that put) until it expires, and none if there was no such put: a put
\* that failed part-way has changed nothing.
C18_PutAllOrNothing ==
  got.at # -1 =>
    IF got.put.ok.live /\ got.at <= got.put.ok.at + DEFAULT_TTL
    THEN /\ got.result # Null
         /\ got.result.cachedAt = toISOString(got.put.ok.at)
         /\ got.result.expiresAt = toISOString(got.put.ok.at + DEFAULT_TTL)
         /\ got.result.combinedRiskScore = got.put.ok.combinedRiskScore
    ELSE got.result = Null

\* C19: a get of a domain whose entry in memory was that of a put completed
\* without error when the process restarted, with no put since, returns that
\* entry while now <= createdAt + TTL, and none afterwards.
C19_SurvivesRestart ==
  (got.at # -1 /\ got.put.reloaded) =>
    /\ durable(got.put)
    /\ IF got.at <= got.put.at + DEFAULT_TTL
       THEN /\ got.result # Null
            /\ got.result.cachedAt = toISOString(got.put.at)
            /\ got.result.expiresAt = toISOString(got.put.at + DEFAULT_TTL)
            /\ got.result.virusTotalResult = got.put.virusTotalResult
            /\ got.result.googleSafeBrowsingResult = got.put.googleSafeBrowsingResult
            /\ got.result.combinedRiskScore = got.put.combinedRiskScore
       ELSE got.result = Null

\* C19 witness: an entry put before a restart is read after it, at the last
\* instant of its TTL
C19_Witness ==
  /\ got.at # -1 /\ got.put.reloaded
  /\ got.at = got.put.at + DEFAULT_TTL
  /\ got.result # Null
  /\ got.result.combinedRiskScore = got.put.combinedRiskScore

\* the limiter's store away from one client's key
storeWithout(rlStore, clientIp) ==
  [k \in DOMAIN rlStore \ {clientIp} |-> rlStore[k]]

\* C20: the step that answers a request 429 leaves it answered with no
\* source called, whatever its url, and changes nothing but the request and
\* its client's entry in the limiter's store; and the next step of that
\* request only frees its slot.  The cache table and its file stay as they
\* were throughout.
C20_RejectionEndsRequest ==
  [][\A r \in Requests :
       /\ (req[r].pc = "idle" /\ req'[r].resp.status = 429) =>
            LET clientIp == getClientIp(req'[r].headers)
            IN  /\ req'[r].pc = "done"
                /\ \A s \in Sources : req'[r].src[s] = IdleCall
                /\ db' = db /\ disk' = disk
                /\ lastPut' = lastPut /\ got' = got
                /\ storeWithout(store', clientIp) = storeWithout(store, clientIp)
                /\ clientIp \in DOMAIN store
                /\ store'[clientIp].count = store[clientIp].count + 1
                /\ store'[clientIp].resetTime = store[clientIp].resetTime
       /\ (req[r].resp.status = 429 /\ req'[r] # req[r]) =>
            /\ req'[r] = IdleReq
            /\ db' = db /\ disk' = disk /\ store' = store
            /\ lastPut' = lastPut /\ got' = got]_vars

\* C20 witness: a request for a valid url that is not in the cache was
\* answered 429 while another client has an entry in the limiter's store
C20_Witness ==
  \E r \in Answered :
    /\ req[r].resp.status = 429
    /\ isValidUrl(req[r].url)
    /\ db = << >>
    /\ Cardinality(DOMAIN store) = 2

\* C21: the handler answers a request whose url is missing, longer than
\* 2048 characters, not parseable or neither http nor https with 400, calls
\* no source and leaves the cache table and its file as they were; a request
\* with any other url is looked up in the cache: it is answered from the
\* cache or its sources are called.
C21_ValidationBeforeLookup ==
  [][\A r \in Requests :
       (req[r].pc = "handler" /\ req'[r].pc # "handler") =>
         LET url == req[r].url
         IN  IF \/ ~url.present
                \/ url.length > 2048
                \/ ~url.parses
                \/ url.protocol \notin {"http:", "https:"}
             THEN /\ req'[r].pc = "done"
                  /\ req'[r].resp.status = 400
                  /\ req'[r].resp.error # ""
                  /\ \A s \in Sources : req'[r].src[s] = IdleCall
                  /\ db' = db /\ disk' = disk /\ lastPut' = lastPut
             ELSE \/ /\ req'[r].pc = "done"
                     /\ req'[r].resp.status = 200
                     /\ req'[r].resp.cached
                     /\ readCache(db, url, now) # Null
                  \/ /\ req'[r].pc = "sources"
                     /\ readCache(db, url, now) = Null
                     /\ \A s \in Sources : req'[r].src[s].st # "idle"]_vars

\* C21 witness: a well-formed http url of more than 2048 characters was
\* answered 400 while the cache holds an entry of its domain
C21_Witness ==
  \E r \in Answered :
    /\ req[r].resp.status = 400
    /\ req[r].url.parses /\ req[r].url.protocol = "http:"
    /\ req[r].url.length > 2048
    /\ dbSelect(db, extractDomain(req[r].url)) # << >>

C23_SourcesIndependent ==
  /\ [](\A r \in Requests : req[r].pc = "sources" =>
          \A s \in Sources :
            /\ req[r].src[s].st = "fetching" =>
                 \E resp \in FlowResponses(s) : ENABLED FetchEnds(r, s, resp)
            /\ (req[r].src[s].st = "sleeping" /\ now >= req[r].src[s].timer) =>
                 ENABLED Wake(r, s))
  /\ [][\A r \in Requests :
          /\ (req[r].pc = "handler" /\ req'[r].pc = "sources") =>
               \A s \in Sources :
                 /\ req'[r].src[s].st = "fetching"
                 /\ req'[r].src[s].invocations = 1
                 /\ req'[r].src[s].timer > now
          /\ (req[r].pc = "sources" /\ req'[r].pc # "sources") =>
               \A s \in Sources : req[r].src[s].st \in {"fulfilled", "rejected"}
          /\ (req[r].pc = "sources" /\ req'[r].pc = "done") =>
               \A s \in Sources : req[r].src[s].st = "rejected"
          /\ (req[r].pc = "write" /\ req'[r].pc = "done") =>
               /\ req'[r].resp.status = 200
               /\ \A s \in Sources :
                    req[r].src[s].st = "fulfilled" =>
                      /\ req'[r].resp.sources[sourceIndex(s)].source = s
                      /\ req'[r].resp.sources[sourceIndex(s)].error = ""
                      /\ req'[r].resp.sources[sourceIndex(s)].score =
                           req[r].src[s].value.riskScore]_vars

\* C23 witness: Safe Browsing has answered on its first attempt while
\* VirusTotal sleeps before a retry
C23_Witness ==
  \E r \in Requests :
    /\ req[r].pc = "sources"
    /\ req[r].src["virustotal"].st = "sleeping"
    /\ req[r].src["google-safe-browsing"].st = "fulfilled"
    /\ req[r].src["google-safe-browsing"].error = ""
    /\ req[r].src["google-safe-browsing"].invocations = 1

\* C24: every 200 response, fresh or cached, has a riskScore that is a
\* number in [0,100], and every row of the cache table and of its file holds
\* the result of at least one source.
C24_ScoreDefined ==
  /\ \A r \in Answered :
       req[r].resp.status = 200 =>
         /\ req[r].resp.riskScore.den > 0
         /\ 0 <= req[r].resp.riskScore.num
         /\ req[r].resp.riskScore.num <= 100 * req[r].resp.riskScore.den
  /\ \A i \in 1..Len(db) :
       db[i].virustotal_data # Null \/ db[i].googlesafebrowsing_data # Null
  /\ \A i \in 1..Len(disk) :
       disk[i].virustotal_data # Null \/ disk[i].googlesafebrowsing_data # Null

\* C24 witness: a response served from an entry that holds the result of
\* Safe Browsing alone
C24_Witness ==
  \E r \in Answered :
    /\ req[r].resp.status = 200 /\ req[r].resp.cached
    /\ req[r].resp.sources[1].error = "Service unavailable"
    /\ req[r].resp.riskScore = req[r].resp.sources[2].score
    /\ dbSelect(db, extractDomain(req[r].url))[1].virustotal_data = Null

\* C25: the sources list of every 200 response, fresh or cached, has two
\* entries, virustotal first and google-safe-browsing second, and the entry
\* of a source whose call ended with an error is the placeholder marked
\* "Service unavailable".
C25_SourcesListComplete ==
  \A r \in Answered :
    req[r].resp.status = 200 =>
      /\ Len(req[r].resp.sources) = 2
      /\ req[r].resp.sources[1].source = "virustotal"
      /\ req[r].resp.sources[2].source = "google-safe-browsing"
      /\ \A s \in Called(r) :
           req[r].src[s].error # "" =>
             req[r].resp.sources[sourceIndex(s)].error = "Service unavailable"

\* C26: every row of the cache table and of its file expires 24 h after it
\* was created, and was created no later than now; a step leaves in the
\* table and in the file only rows that were in the table or in the file
\* before, unchanged, or rows created at the time of the step.
C26_TimestampsFixed ==
  /\ [](\A i \in 1..Len(db) :
          /\ db[i].expires_at = db[i].created_at + 24 * 60 * 60 * 1000
          /\ db[i].created_at <= now)
  /\ [](\A i \in 1..Len(disk) :
          /\ disk[i].expires_at = disk[i].created_at + 24 * 60 * 60 * 1000
          /\ disk[i].created_at <= now)
  /\ [][LET before == {db[i] : i \in 1..Len(db)} \cup {disk[i] : i \in 1..Len(disk)}
            after == {db'[i] : i \in 1..Len(db')} \cup {disk'[i] : i \in 1..Len(disk')}
        IN  \A row \in after :
              \/ row \in before
              \/ /\ row.created_at = now
                 /\ row.expires_at = now + 24 * 60 * 60 * 1000]_vars

\* C26 witness: an entry created some time ago has been read and is still in
\* the table with the timestamps of its put
C26_Witness ==
  /\ got.at # -1 /\ got.result # Null
  /\ got.put.live /\ got.put.at < got.at
  /\ \E i \in 1..Len(db) :
       /\ db[i].domain = extractDomain(got.url)
       /\ db[i].created_at = got.put.at
       /\ db[i].expires_at = got.put.at + 24 * 60 * 60 * 1000
       /\ now > got.at

\* C27: with requests for one domain in flight at once, each request that
\* missed the cache writes the entry computed from its own sources; the table
\* holds no row for a domain never written and exactly one row afterwards,
\* which is that of the write that ran last; and a get after the first write
\* never finds the domain without an entry.
C27_LastPutWins ==
  /\ [](\A d \in Domains :
          /\ Len(dbSelect(db, d)) = (IF lastPut[d].live THEN 1 ELSE 0)
          /\ lastPut[d].live =>
               /\ dbSelect(db, d)[1].combined_risk_score = lastPut[d].combinedRiskScore
               /\ dbSelect(db, d)[1].created_at = lastPut[d].at
               /\ dbSelect(disk, d) = dbSelect(db, d))
  /\ []((got.at # -1 /\ got.put.live) =>
          /\ got.result # Null
          /\ got.result.combinedRiskScore = got.put.combinedRiskScore)
  /\ [][\A r \in Requests :
          (req[r].pc = "write" /\ req'[r].pc = "done") =>
            LET d == extractDomain(req[r].url)
            IN  /\ Len(dbSelect(db', d)) = 1
                /\ dbSelect(db', d)[1].combined_risk_score = req'[r].resp.riskScore
                /\ dbSelect(db', d)[1].virustotal_score =
                     req[r].src["virustotal"].value.riskScore
                /\ lastPut'[d].fresh = req'[r].resp]_vars

\* C27 witness: two requests for one domain both missed the cache and were
\* answered with different scores; the table holds the one row of the write
\* that ran last, and a get has returned it
C27_Witness ==
  /\ req["r1"].pc = "done" /\ req["r2"].pc = "done"
  /\ req["r1"].resp.status = 200 /\ ~req["r1"].resp.cached
  /\ req["r2"].resp.status = 200 /\ ~req["r2"].resp.cached
  /\ extractDomain(req["r1"].url) = extractDomain(req["r2"].url)
  /\ req["r1"].resp.riskScore # req["r2"].resp.riskScore
  /\ Len(dbSelect(db, extractDomain(req["r1"].url))) = 1
  /\ dbSelect(db, extractDomain(req["r1"].url))[1].combined_risk_score
       = req["r1"].resp.riskScore
  /\ got.result # Null
  /\ got.result.combinedRiskScore = req["r1"].resp.riskScore

\* C28: a call makes at most 3 attempts, an attempt is never in flight past
\* its timeout, and every request with a valid url that has reached the
\* handler is eventually answered.
C28_EventuallyAnswered ==
  /\ [](\A call \in Calls :
          /\ call.invocations <= 3
          /\ call.st = "fetching" => now <= call.timer)
  /\ \A r \in FlowRequests :
       (req[r].pc = "handler" /\ isValidUrl(req[r].url)) ~> (req[r].pc = "done")

\* C28 witness: a request has been answered after every attempt of both of
\* its sources had run into the timeout
C28_Witness ==
  \E r \in Answered :
    /\ isValidUrl(req[r].url)
    /\ req[r].resp.status = 200
    /\ \A s \in Sources :
         /\ req[r].src[s].invocations = 3
         /\ req[r].src[s].error = "TimeoutError"

\* C29: a request's sources are called only after its lookup missed; a
\* request answered from the cache has called no source and the table and
\* its file are as before, timestamps included; and the table or its file
\* change only in the one step of a request whose sources have all settled,
\* at least one of them without error, that writes the entry and answers 200.
C29_StepOrder ==
  [][/\ \A r \in Requests :
          /\ (req[r].pc = "handler" /\ req'[r].pc = "sources") =>
               /\ readCache(db, req[r].url, now) = Null
               /\ db' = db /\ disk' = disk
          /\ (req[r].pc = "handler" /\ req'[r].pc = "done" /\ req'[r].resp.status = 200) =>
               /\ req'[r].resp.cached
               /\ \A s \in Sources : req'[r].src[s].st = "idle"
               /\ db' = db /\ disk' = disk
          /\ (req[r].pc = "write" /\ req'[r] # req[r]) =>
               /\ req'[r].pc = "done"
               /\ req'[r].resp.status = 200 /\ ~req'[r].resp.cached
               /\ Len(dbSelect(db', extractDomain(req[r].url))) = 1
               /\ dbSelect(db', extractDomain(req[r].url))[1].created_at = now
     /\ (db' # db \/ disk' # disk) =>
          \E r \in Requests :
            /\ req[r].pc = "write" /\ req'[r].pc = "done"
            /\ \A s \in Sources : req[r].src[s].st \in {"fulfilled", "rejected"}
            /\ \E s \in Sources : req[r].src[s].st = "fulfilled" /\ req[r].src[s].error = ""]_vars

\* C30: the reset time of a client's window changes only in the step of a
\* request of that client that arrives strictly after it, which leaves the
\* window with count 1 and reset time now + 60 s; every other request of the
\* client, let through or answered 429, also one arriving exactly at the
\* reset time, adds 1 to the count and leaves the reset time as it is; and
\* no other step changes the limiter's store.
C30_WindowFixed ==
  [][/\ \A k \in DOMAIN store :
          /\ k \in DOMAIN store'
          /\ store'[k] # store[k] =>
               /\ \E r \in Requests :
                    /\ req[r].pc = "idle" /\ req'[r].pc # "idle"
                    /\ getClientIp(req'[r].headers) = k
               /\ IF now <= store[k].resetTime
                  THEN store'[k] = [count |-> store[k].count + 1,
                                    resetTime |-> store[k].resetTime]
                  ELSE store'[k] = [count |-> 1, resetTime |-> now + 60000]
     /\ \A r \in Requests :
          (req[r].pc = "idle" /\ req'[r].pc # "idle") =>
            LET k == getClientIp(req'[r].headers)
            IN  /\ k \in DOMAIN store'
                /\ k \in DOMAIN store => store'[k] # store[k]
                /\ k \notin DOMAIN store =>
                     store'[k] = [count |-> 1, resetTime |-> now + 60000]
                /\ req'[r].resp.status = 429 =>
                     (k \in DOMAIN store /\ store'[k].resetTime = store[k].resetTime)]_vars

\* C30 witness: a request that arrived exactly at the reset time of its
\* client's window was counted in that window
C30_Witness ==
  \E r \in Requests :
    /\ req[r].pc # "idle"
    /\ req[r].at = entryOf(r).resetTime
    /\ entryOf(r).count >= 2
    /\ req[r].at = 60000

\* C31: once a request of a client has been answered 429 at time t with
\* retryAfter r, a request of that client that is its next and arrives
\* r seconds after t, or later, is let through.
C31_RetryAfterSuffices ==
  \A r \in Answered :
    req[r].resp.status = 429 =>
      \A wait \in {0, 1, 1000, WINDOW} :
        ~rateLimitExceeded(
           rateLimitEntry(store, getClientIp(req[r].headers),
                          req[r].at + 1000 * req[r].resp.retryAfter + wait))

\* C32: a sweep removes exactly the windows whose reset time lies more than
\* 60 s in the past and leaves the others as they are; and for every client
\* the window, and with it the decision, the remaining and the reset time,
\* of a request arriving at the time of the sweep or later is the same with
\* the store as swept as with the store as it was.
C32_SweepInvisible ==
  [][nextSweep' # nextSweep =>
       /\ DOMAIN store' \subseteq DOMAIN store
       /\ \A k \in DOMAIN store :
            /\ (k \in DOMAIN store') <=> (now <= store[k].resetTime + 60000)
            /\ k \in DOMAIN store' => store'[k] = store[k]
       /\ \A k \in DOMAIN store' : now <= store'[k].resetTime + 60000
       /\ \A h \in AllHeaders : \A u \in {now, now + 1, now + WINDOW} :
            /\ rateLimitEntry(store', getClientIp(h), u)
                 = rateLimitEntry(store, getClientIp(h), u)
            /\ rateLimitHeaders(rateLimitEntry(store', getClientIp(h), u), u)
                 = rateLimitHeaders(rateLimitEntry(store, getClientIp(h), u), u)]_vars

\* C32 witness: a sweep has run and has removed the window of a request
\* that was counted more than two window lengths before it
C32_Witness ==
  \E r \in Requests :
    /\ req[r].pc # "idle"
    /\ getClientIp(req[r].headers) \notin DOMAIN store
    /\ now > req[r].at + 2 * WINDOW
    /\ nextSweep > SWEEP_INTERVAL

\* C33: the key of a request is its x-forwarded-for header, else its
\* x-real-ip header, else "unknown"; the step that counts a request changes
\* the window of that key and leaves the window of every other key, and the
\* window a request of another key would get, as they were.
C33_KeysIndependent ==
  [][\A r \in Requests :
       (req[r].pc = "idle" /\ req'[r].pc # "idle") =>
         LET h == req'[r].headers
             k == IF h.xForwardedFor # "" THEN h.xForwardedFor
                  ELSE IF h.xRealIp # "" THEN h.xRealIp
                  ELSE "unknown"
         IN  /\ k \in DOMAIN store'
             /\ k \in DOMAIN store => store'[k] # store[k]
             /\ DOMAIN store' = DOMAIN store \cup {k}
             /\ \A j \in DOMAIN store \ {k} : store'[j] = store[j]
             /\ \A j \in {"10.0.0.1", "10.0.0.2", "unknown"} \ {k} :
                  \A u \in {now, now + 1, now + WINDOW} :
                    rateLimitEntry(store', j, u) = rateLimitEntry(store, j, u)]_vars

\* C33 witness: one key has been answered 429 while the two other keys have
\* windows with requests to spare
C33_Witness ==
  \E r \in Answered :
    /\ req[r].resp.status = 429
    /\ DOMAIN store = {"10.0.0.1", "10.0.0.2", "unknown"}
    /\ store["10.0.0.2"].count \in 1..2
    /\ store["unknown"].count \in 1..2

\* C34: when the handler looks up a valid url whose hostname was last
\* written to the cache, no longer than the TTL ago, with the answer to a
\* different url, it answers 200 with cached true, the url of this request
\* and the sources of that earlier answer, and starts no source call.
C34_HostnameKeyed ==
  [][\A r \in Requests :
       LET u2 == req[r].url
       IN  (/\ req[r].pc = "handler" /\ req'[r].pc # "handler"
            /\ isValidUrl(u2)
            /\ lastPut[u2.hostname].live
            /\ lastPut[u2.hostname].fresh.status = 200
            /\ lastPut[u2.hostname].fresh.url # u2
            /\ now <= lastPut[u2.hostname].at + DEFAULT_TTL)
           => /\ req'[r].pc = "done"
              /\ req'[r].resp.status = 200
              /\ req'[r].resp.cached
              /\ req'[r].resp.url = u2
              /\ req'[r].resp.sources = lastPut[u2.hostname].fresh.sources
              /\ req'[r].resp.riskScore = lastPut[u2.hostname].fresh.riskScore
              /\ req'[r].src = req[r].src]_vars

\* C34 witness: http://ads.io/ was checked and cached, and a check of
\* https://ads.io:8443/x?q, at the last millisecond of the TTL, is answered
\* from the cache
C34_Witness ==
  \E r \in Answered :
    /\ req[r].resp.cached
    /\ req[r].url.port = "8443" /\ req[r].url.protocol = "https:"
    /\ req[r].resp.url = req[r].url
    /\ lastPut[AdsIo].live
    /\ lastPut[AdsIo].fresh.url = Url("http:", AdsIo, <<"/">>)
    /\ req[r].at = lastPut[AdsIo].at + DEFAULT_TTL
    /\ \A s \in Sources : req[r].src[s] = IdleCall

\* C35: a direct getCachedResult leaves the table and the file as they
\* are; and as long as a domain has an expired row, a step either leaves
\* the rows of the domain as they are or is a write of that domain, after
\* which the domain has the one row written now.
C35_GetLeavesStore ==
  [][/\ got' # got => db' = db /\ disk' = disk
     /\ \A d \in Domains :
          LET rows == dbSelect(db, d)
          IN  (rows # << >> /\ now > rows[1].expires_at) =>
                \/ dbSelect(db', d) = rows
                \/ /\ lastPut'[d] # lastPut[d]
                   /\ Len(dbSelect(db', d)) = 1
                   /\ dbSelect(db', d)[1].created_at = now]_vars

\* C35 witness: an entry was read after its expiry, the read returned null,
\* and the row is still in the table and in the file
C35_Witness ==
  /\ got.put.live
  /\ got.result = Null
  /\ got.at > got.put.at + DEFAULT_TTL
  /\ now = got.at
  /\ Len(dbSelect(db, got.url.hostname)) = 1
  /\ dbSelect(db, got.url.hostname)[1].created_at = got.put.at
  /\ dbSelect(disk, got.url.hostname) = dbSelect(db, got.url.hostname)

\* C36: when an attempt of a source ends with an answer for which the
\* operation returns, the call settles in that step with what checkUrl
\* makes of that answer alone; the operation has then been invoked once
\* per attempt up to this one and has slept once between two attempts; and
\* a call that has settled is not touched again while its request lasts.
C36_FirstSuccessReturns ==
  [][\A r \in Requests : \A s \in Sources :
       LET call == req[r].src[s]
           after == req'[r].src[s]
           domain == extractDomain(req[r].url)
       IN  /\ (/\ req[r].pc = "sources" /\ call.st = "fetching"
               /\ after # call
               /\ \E resp \in FlowResponses(s) :
                    resp.status = after.last /\ operation(s, resp).threw = "")
              => /\ after.st \in {"fulfilled", "rejected"}
                 /\ after.invocations = call.attempt + 1
                 /\ after.invocations = call.invocations
                 /\ after.sleeps = call.sleeps
                 /\ Len(after.sleeps) = after.invocations - 1
                 /\ after.timer = -1
                 /\ \E resp \in FlowResponses(s) :
                      /\ resp.status = after.last
                      /\ after.value = checkUrlEnd(s, domain, operation(s, resp), now).data
                      /\ after.error = fromData(s, domain, operation(s, resp).data, now).threw
           /\ (call.st \in {"fulfilled", "rejected"} /\ req'[r].pc # "idle")
              => after = call]_vars

\* C36 witness: a call has settled with the result of its third attempt,
\* after two attempts that failed with a retryable error and two sleeps
C36_Witness ==
  \E r \in Requests : \E s \in Sources :
    /\ req[r].src[s].st = "fulfilled"
    /\ req[r].src[s].last = 200
    /\ req[r].src[s].invocations = 3
    /\ req[r].src[s].sleeps = <<1000, 2000>>
    /\ req[r].src[s].error = ""
    /\ req[r].src[s].value # Null

\* the error type that fetchWithRetry's loop gives to what an attempt ended
\* with ("" for a response that is no failure)
failureType(outcome) ==
  IF outcome.threw = "AbortError" THEN "timeout"
  ELSE IF outcome.threw # ""
  THEN IF includes(outcome.message, <<"f", "e", "t", "c", "h">>) THEN "network" ELSE "unknown"
  ELSE IF outcome.status = 429 THEN "rate_limit"
  ELSE IF outcome.status \in 400..499 THEN "client_error"
  ELSE IF outcome.status >= 500 THEN "server_error"
  ELSE ""

\* C37: an attempt of fetchWithRetry is followed by another one only if it
\* failed as network, timeout or server_error, was not the fourth, and was
\* followed by a delay of 1000 * 2^attempt ms; and an attempt that failed as
\* rate_limit, client_error or unknown is the last one, and the call has
\* thrown an error of that type.
C37_RetryOnlyRetryable ==
  /\ Len(api.outcomes) <= MAX_RETRIES + 1
  /\ \A i \in 1..Len(api.outcomes) :
       LET type == failureType(api.outcomes[i])
           followed == i < Len(api.outcomes) \/ api.pc \in {"fetching", "delay"}
       IN  /\ followed =>
                /\ type \in {"network", "timeout", "server_error"}
                /\ i <= 3
                /\ Len(api.sleeps) >= i
                /\ api.sleeps[i] = 1000 * pow(2, i - 1)
           /\ type \in {"rate_limit", "client_error", "unknown"} =>
                /\ i = Len(api.outcomes)
                /\ api.pc = "thrown"
                /\ api.error.type = type

\* C38: two requests that both called getDb before the module's db was
\* set, and have both got their handle, have the same handle; it has the
\* url_checks table; and a row that one of them has written through its
\* handle is in the table the other reads through its own.
C38_OneHandle ==
  \A c1 \in Requests : \A c2 \in Requests \ {c1} :
    (/\ conn.early[c1] /\ conn.early[c2]
     /\ conn.pc[c1] = "returned" /\ conn.pc[c2] = "returned")
    => /\ conn.handle[c1] = conn.handle[c2]
       /\ conn.handles[conn.handle[c1]].table
       /\ conn.wrote[c1] # "failed"
       /\ conn.wrote[c1] = "yes" => c1 \in conn.handles[conn.handle[c2]].rows

====
